---- MODULE Spec2Model ----
(***************************************************************************)
(* Project Acorn: Intel 8086 execution engine (intel8086.h, intel8086.c,   *)
(* opcode.h) as a state machine.  The CPU record and the 1 MiB RAM are the *)
(* state; one do_op call is a run of DoOpPrefix steps (one per prefix byte *)
(* consumed by the while loop) closed by one DoOpExec step (the switch and *)
(* the clearing of the segment override).                                  *)
(***************************************************************************)
EXTENDS Integers, Naturals, Sequences, FiniteSets, TLC

VARIABLES cpu, ram, phase, hist, steps, call

vars == <<cpu, ram, phase, hist, steps, call>>

(* ------------------------------------------------------------------ *)
(* Machine words                                                       *)
(* ------------------------------------------------------------------ *)
Pow2(n) == 2 ^ n

U8(x) == x % 256

U16(x) == x % 65536

(* two's-complement reading of an 8/16-bit pattern *)
S8(x) == IF U8(x) >= 128 THEN U8(x) - 256 ELSE U8(x)

S16(x) == IF U16(x) >= 32768 THEN U16(x) - 65536 ELSE U16(x)

RECURSIVE BitAnd(_, _)
BitAnd(a, b) ==
    IF a = 0 \/ b = 0 THEN 0
    ELSE (a % 2) * (b % 2) + 2 * BitAnd(a \div 2, b \div 2)

RECURSIVE BitOr(_, _)
BitOr(a, b) ==
    IF a = 0 THEN b
    ELSE IF b = 0 THEN a
    ELSE (IF a % 2 = 1 \/ b % 2 = 1 THEN 1 ELSE 0) + 2 * BitOr(a \div 2, b \div 2)

RECURSIVE BitXor(_, _)
BitXor(a, b) ==
    IF a = 0 THEN b
    ELSE IF b = 0 THEN a
    ELSE ((a + b) % 2) + 2 * BitXor(a \div 2, b \div 2)

(* ~x on a 16-bit operand *)
Not16(x) == 65535 - U16(x)

Shl(x, n) == x * Pow2(n)

Shr(x, n) == x \div Pow2(n)

(* ------------------------------------------------------------------ *)
(* intel8086.h                                                         *)
(* ------------------------------------------------------------------ *)
RAM_SIZE == 1048576

ADDR_MASK == 1048575

(* cpu_calc_addr without the & 0xFFFFF *)
cpu_calc_addr_unmasked(segment, offset) == Shl(segment, 4) + offset

cpu_calc_addr(segment, offset) ==
    BitAnd(Shl(segment, 4) + offset, ADDR_MASK)

cpu_get_pc(c) == cpu_calc_addr(c.cs, c.ip)

(* ------------------------------------------------------------------ *)
(* RAM: the malloc'ed, zeroed 1 MiB buffer, kept as the finite map of  *)
(* its non-zero cells (every other cell holds 0). A buffer loaded with *)
(* one byte value throughout is kept as that value under the key -1    *)
(* and the map of the cells that differ from it.                       *)
(* ------------------------------------------------------------------ *)
ZeroRam == <<>>

(* the value of every cell the map does not list *)
Background(m) == IF (0 - 1) \in DOMAIN m THEN m[0 - 1] ELSE 0

(* the buffer with the byte b in every cell *)
FilledRam(b) == [a \in {0 - 1} |-> b]

Peek(m, a) == IF a \in DOMAIN m THEN m[a] ELSE Background(m)

Poke(m, a, v) ==
    IF v = Background(m)
    THEN [x \in (DOMAIN m) \ {a} |-> m[x]]
    ELSE [x \in (DOMAIN m) \cup {a} |-> IF x = a THEN v ELSE m[x]]

cpu_read_byte(m, addr) ==
    IF addr >= RAM_SIZE THEN 255 ELSE Peek(m, addr)

cpu_read_word(m, addr) ==
    IF addr + 1 >= RAM_SIZE THEN 65535
    ELSE BitOr(Peek(m, addr), Shl(Peek(m, addr + 1), 8))

cpu_write_byte(m, addr, value) ==
    IF addr >= RAM_SIZE THEN m ELSE Poke(m, addr, U8(value))

cpu_write_word(m, addr, value) ==
    IF addr + 1 >= RAM_SIZE THEN m
    ELSE Poke(Poke(m, addr, BitAnd(value, 255)),
              addr + 1, BitAnd(Shr(value, 8), 255))

(* ------------------------------------------------------------------ *)
(* init_8086                                                           *)
(* ------------------------------------------------------------------ *)
ZeroCpu ==
    [ax |-> 0, bx |-> 0, cx |-> 0, dx |-> 0,
     sp |-> 0, bp |-> 0, si |-> 0, di |-> 0,
     ip |-> 0, flags |-> 0,
     cs |-> 0, ds |-> 0, ss |-> 0, es |-> 0,
     seg_override |-> 0, rep_prefix |-> 0,
     cycles |-> 0, running |-> 0]

(* memset(cpu, 0, sizeof(X86Cpu)) *)
memset_cpu(c) == [f \in DOMAIN c |-> 0]

(* init_8086 without the memset: the fields it does not assign keep    *)
(* what the allocation held                                            *)
init_8086_no_memset(c) ==
    [cpu |-> [c EXCEPT !.ip = 65520, !.cs = 61440, !.sp = 65534,
                       !.running = 1, !.cycles = 0],
     ram |-> ZeroRam]

init_8086(c) ==
    [cpu |-> [memset_cpu(c) EXCEPT !.ip = 65520, !.cs = 61440, !.sp = 65534,
                                   !.running = 1, !.cycles = 0],
     ram |-> ZeroRam]

(* ------------------------------------------------------------------ *)
(* opcode.h: flag bits, register file access                           *)
(* ------------------------------------------------------------------ *)
FLAGS_CF == 1

FLAGS_PF == 4

FLAGS_AF == 16

FLAGS_ZF == 64

FLAGS_SF == 128

FLAGS_TF == 256

FLAGS_INT == 512

FLAGS_DF == 1024

FLAGS_OV == 2048

FLAG_TST(c, x) == BitAnd(x, c.flags) # 0

MODRM_MOD(x) == BitAnd(Shr(x, 6), 3)

MODRM_REG(x) == BitAnd(Shr(x, 3), 7)

MODRM_RM(x) == BitAnd(x, 7)

Lo(w) == w % 256

Hi(w) == (w \div 256) % 256

WithLo(w, v) == Hi(w) * 256 + U8(v)

WithHi(w, v) == U8(v) * 256 + Lo(w)

(* *get_reg8_ptr(cpu, reg) *)
get_reg8(c, reg) ==
    CASE reg = 0 -> Lo(c.ax)
      [] reg = 1 -> Lo(c.cx)
      [] reg = 2 -> Lo(c.dx)
      [] reg = 3 -> Lo(c.bx)
      [] reg = 4 -> Hi(c.ax)
      [] reg = 5 -> Hi(c.cx)
      [] reg = 6 -> Hi(c.dx)
      [] reg = 7 -> Hi(c.bx)

(* a byte store that overwrites the whole 16-bit register *)
set_reg8_whole(c, reg, v) ==
    CASE reg % 4 = 0 -> [c EXCEPT !.ax = v]
      [] reg % 4 = 1 -> [c EXCEPT !.cx = v]
      [] reg % 4 = 2 -> [c EXCEPT !.dx = v]
      [] reg % 4 = 3 -> [c EXCEPT !.bx = v]

(* *get_reg8_ptr(cpu, reg) = v *)
set_reg8(c, reg, v) ==
    CASE reg = 0 -> [c EXCEPT !.ax = WithLo(@, v)]
      [] reg = 1 -> [c EXCEPT !.cx = WithLo(@, v)]
      [] reg = 2 -> [c EXCEPT !.dx = WithLo(@, v)]
      [] reg = 3 -> [c EXCEPT !.bx = WithLo(@, v)]
      [] reg = 4 -> [c EXCEPT !.ax = WithHi(@, v)]
      [] reg = 5 -> [c EXCEPT !.cx = WithHi(@, v)]
      [] reg = 6 -> [c EXCEPT !.dx = WithHi(@, v)]
      [] reg = 7 -> [c EXCEPT !.bx = WithHi(@, v)]

(* *get_reg16_ptr(cpu, reg) *)
get_reg16(c, reg) ==
    CASE reg = 0 -> c.ax
      [] reg = 1 -> c.cx
      [] reg = 2 -> c.dx
      [] reg = 3 -> c.bx
      [] reg = 4 -> c.sp
      [] reg = 5 -> c.bp
      [] reg = 6 -> c.si
      [] reg = 7 -> c.di

(* *get_reg16_ptr(cpu, reg) = v *)
set_reg16(c, reg, v) ==
    CASE reg = 0 -> [c EXCEPT !.ax = U16(v)]
      [] reg = 1 -> [c EXCEPT !.cx = U16(v)]
      [] reg = 2 -> [c EXCEPT !.dx = U16(v)]
      [] reg = 3 -> [c EXCEPT !.bx = U16(v)]
      [] reg = 4 -> [c EXCEPT !.sp = U16(v)]
      [] reg = 5 -> [c EXCEPT !.bp = U16(v)]
      [] reg = 6 -> [c EXCEPT !.si = U16(v)]
      [] reg = 7 -> [c EXCEPT !.di = U16(v)]

(* the segment chosen by a non-zero cpu->seg_override *)
override_seg(c) ==
    IF c.seg_override = 1 THEN c.es
    ELSE IF c.seg_override = 2 THEN c.cs
    ELSE IF c.seg_override = 3 THEN c.ss
    ELSE c.ds

(* ------------------------------------------------------------------ *)
(* opcode.h: ModR/M                                                    *)
(* ------------------------------------------------------------------ *)
calc_ea_base(c, mod, rm) ==
    CASE rm = 0 -> c.bx + c.si
      [] rm = 1 -> c.bx + c.di
      [] rm = 2 -> c.bp + c.si
      [] rm = 3 -> c.bp + c.di
      [] rm = 4 -> c.si
      [] rm = 5 -> c.di
      [] rm = 6 -> c.bp
      [] rm = 7 -> c.bx

(* a default segment that is DS for every form *)
calc_ea_default_seg_ds(c, mod, rm) == c.ds

calc_ea_default_seg(c, mod, rm) ==
    IF mod # 3 /\ (rm = 2 \/ rm = 3 \/ (rm = 6 /\ mod # 0)) THEN c.ss ELSE c.ds

calc_ea_seg(c, mod, rm) ==
    IF c.seg_override # 0 THEN override_seg(c)
    ELSE calc_ea_default_seg(c, mod, rm)

(* the 16-bit offset before the segment is added *)
calc_ea_offset(c, mod, rm, disp) ==
    IF rm = 6 /\ mod = 0 THEN disp
    ELSE IF mod = 1 THEN U16(calc_ea_base(c, mod, rm) + S8(disp))
    ELSE IF mod = 2 THEN U16(calc_ea_base(c, mod, rm) + disp)
    ELSE calc_ea_base(c, mod, rm)

calc_ea(c, mod, rm, disp) ==
    IF mod = 3 THEN 0
    ELSE cpu_calc_addr(calc_ea_seg(c, mod, rm),
                       BitAnd(calc_ea_offset(c, mod, rm, disp), 65535))

(* the displacement bytes that follow the ModR/M byte at addr *)
modrm_has_disp16(mod, rm) == (mod = 0 /\ rm = 6) \/ mod = 2

modrm_displacement(m, addr, mod, rm) ==
    IF modrm_has_disp16(mod, rm) THEN cpu_read_word(m, addr + 1)
    ELSE IF mod = 1 THEN cpu_read_byte(m, addr + 1)
    ELSE 0

modrm_length(mod, rm) ==
    IF modrm_has_disp16(mod, rm) THEN 3 ELSE IF mod = 1 THEN 2 ELSE 1

decode_modrm_fields(c, reg, mod, rm, displacement) ==
    [reg |-> reg, rm |-> rm, mod |-> mod,
     is_memory |-> mod # 3,
     ea |-> IF mod # 3 THEN calc_ea(c, mod, rm, displacement) ELSE 0,
     displacement |-> displacement,
     length |-> modrm_length(mod, rm)]

decode_modrm_byte(c, m, addr, byte) ==
    decode_modrm_fields(c, MODRM_REG(byte), MODRM_MOD(byte), MODRM_RM(byte),
                        modrm_displacement(m, addr, MODRM_MOD(byte),
                                           MODRM_RM(byte)))

decode_modrm(c, m, addr) ==
    decode_modrm_byte(c, m, addr, cpu_read_byte(m, addr))

(* ------------------------------------------------------------------ *)
(* opcode.h: flag helpers                                              *)
(* ------------------------------------------------------------------ *)
set_flag(c, flag) == [c EXCEPT !.flags = BitOr(@, flag)]

(* clear_flag taking bit 1 of FLAGS with it *)
clear_flag_and_bit1(c, flag) ==
    [c EXCEPT !.flags = BitAnd(BitAnd(@, 65535 - flag), 65533)]

clear_flag(c, flag) == [c EXCEPT !.flags = BitAnd(@, 65535 - flag)]

put_flag(c, flag, on) == IF on THEN set_flag(c, flag) ELSE clear_flag(c, flag)

chk_parity(c, data) ==
    LET b0 == BitAnd(data, 255)
        b1 == BitXor(b0, Shr(b0, 4))
        b2 == BitXor(b1, Shr(b1, 2))
        b3 == BitXor(b2, Shr(b2, 1))
    IN  put_flag(c, FLAGS_PF, BitAnd(b3, 1) = 0)

chk_zero(c, data) == put_flag(c, FLAGS_ZF, data = 0)

chk_sign(c, data, is_byte) ==
    put_flag(c, FLAGS_SF,
             IF is_byte THEN BitAnd(data, 128) # 0 ELSE BitAnd(data, 32768) # 0)

update_flags_szp(c, result, is_byte) ==
    chk_parity(
        chk_sign(
            chk_zero(c, IF is_byte THEN BitAnd(result, 255) ELSE result),
            result, is_byte),
        result)

(* a carry check that tests a byte sum against the word limit *)
chk_carry_add_word_limit(c, result, is_byte) ==
    put_flag(c, FLAGS_CF, result > 65535)

chk_carry_add(c, result, is_byte) ==
    put_flag(c, FLAGS_CF, IF is_byte THEN result > 255 ELSE result > 65535)

chk_overflow_add(c, src, dst, result, is_byte) ==
    LET bit == IF is_byte THEN 128 ELSE 32768
        src_sign == BitAnd(src, bit) # 0
        dst_sign == BitAnd(dst, bit) # 0
        res_sign == BitAnd(result, bit) # 0
    IN  put_flag(c, FLAGS_OV, src_sign = dst_sign /\ src_sign # res_sign)

(* the overflow test of addition applied to a subtraction *)
chk_overflow_sub_as_add(c, src, dst, result, is_byte) ==
    chk_overflow_add(c, src, dst, result, is_byte)

chk_overflow_sub(c, src, dst, result, is_byte) ==
    LET bit == IF is_byte THEN 128 ELSE 32768
        src_sign == BitAnd(src, bit) # 0
        dst_sign == BitAnd(dst, bit) # 0
        res_sign == BitAnd(result, bit) # 0
    IN  put_flag(c, FLAGS_OV, src_sign # dst_sign /\ dst_sign # res_sign)

chk_aux_carry_add(c, src, dst) ==
    put_flag(c, FLAGS_AF, BitAnd(U8(src), 15) + BitAnd(U8(dst), 15) > 15)

chk_aux_carry_sub(c, src, dst) ==
    put_flag(c, FLAGS_AF, BitAnd(U8(dst), 15) < BitAnd(U8(src), 15))

update_flags_logic(c, result, is_byte) ==
    update_flags_szp(
        clear_flag(clear_flag(clear_flag(c, FLAGS_CF), FLAGS_OV), FLAGS_AF),
        result, is_byte)

(* ------------------------------------------------------------------ *)
(* Handlers work on s = [cpu, ram, ub, fault]: the CPU record, the RAM, *)
(* the outcome the build gives to undefined behaviour in this call, and *)
(* the signal that killed the process, if any.                         *)
(* ------------------------------------------------------------------ *)
add_ip(s, n) == [s EXCEPT !.cpu.ip = U16(@ + n)]

halt(s) == [s EXCEPT !.cpu.running = 0]

opcode_at_pc(s) == cpu_read_byte(s.ram, cpu_get_pc(s.cpu))

(* the ModR/M decoded from the byte after the opcode *)
modrm_at(s) == decode_modrm(s.cpu, s.ram, cpu_get_pc(s.cpu) + 1)

(* the r/m operand of a decoded ModR/M, byte or word *)
rm_read(s, modrm, is_byte) ==
    IF is_byte
    THEN IF modrm.is_memory THEN cpu_read_byte(s.ram, modrm.ea)
         ELSE get_reg8(s.cpu, modrm.rm)
    ELSE IF modrm.is_memory THEN cpu_read_word(s.ram, modrm.ea)
         ELSE get_reg16(s.cpu, modrm.rm)

rm_write(s, modrm, is_byte, v) ==
    IF is_byte
    THEN IF modrm.is_memory
         THEN [s EXCEPT !.ram = cpu_write_byte(@, modrm.ea, v)]
         ELSE [s EXCEPT !.cpu = set_reg8(@, modrm.rm, v)]
    ELSE IF modrm.is_memory
         THEN [s EXCEPT !.ram = cpu_write_word(@, modrm.ea, U16(v))]
         ELSE [s EXCEPT !.cpu = set_reg16(@, modrm.rm, v)]

reg_read(s, reg, is_byte) ==
    IF is_byte THEN get_reg8(s.cpu, reg) ELSE get_reg16(s.cpu, reg)

reg_write(s, reg, is_byte, v) ==
    IF is_byte THEN [s EXCEPT !.cpu = set_reg8(@, reg, v)]
    ELSE [s EXCEPT !.cpu = set_reg16(@, reg, v)]

(* ------------------------------------------------------------------ *)
(* opcode.h: stack                                                     *)
(* ------------------------------------------------------------------ *)
push_word(s, value) ==
    LET sp == U16(s.cpu.sp - 2)
        addr == cpu_calc_addr(s.cpu.ss, sp)
    IN  [s EXCEPT !.cpu.sp = sp, !.ram = cpu_write_word(@, addr, value)]

(* pop_word: the value read, and the state with SP moved *)
pop_word_value(s) == cpu_read_word(s.ram, cpu_calc_addr(s.cpu.ss, s.cpu.sp))

pop_word_state(s) == [s EXCEPT !.cpu.sp = U16(@ + 2)]

(* a PUSH that reads the register after SP has been decremented *)
push_reg16_after_decrement(s) ==
    add_ip(push_word(s, get_reg16([s.cpu EXCEPT !.sp = U16(@ - 2)],
                                  BitAnd(opcode_at_pc(s), 7))), 1)

push_reg16(s) ==
    LET reg == BitAnd(opcode_at_pc(s), 7)
    IN  add_ip(push_word(s, get_reg16(s.cpu, reg)), 1)

pop_reg16(s) ==
    LET reg == BitAnd(opcode_at_pc(s), 7)
        value == pop_word_value(s)
        s1 == pop_word_state(s)
    IN  add_ip([s1 EXCEPT !.cpu = set_reg16(@, reg, value)], 1)

push_seg(s) ==
    LET opcode == opcode_at_pc(s)
    IN  CASE opcode = 6 -> add_ip(push_word(s, s.cpu.es), 1)
          [] opcode = 14 -> add_ip(push_word(s, s.cpu.cs), 1)
          [] opcode = 22 -> add_ip(push_word(s, s.cpu.ss), 1)
          [] opcode = 30 -> add_ip(push_word(s, s.cpu.ds), 1)
          [] OTHER -> halt(s)

pop_seg(s) ==
    LET opcode == opcode_at_pc(s)
        value == pop_word_value(s)
        s1 == pop_word_state(s)
    IN  CASE opcode = 7 -> add_ip([s1 EXCEPT !.cpu.es = value], 1)
          [] opcode = 15 -> add_ip([s1 EXCEPT !.cpu.cs = value], 1)
          [] opcode = 23 -> add_ip([s1 EXCEPT !.cpu.ss = value], 1)
          [] opcode = 31 -> add_ip([s1 EXCEPT !.cpu.ds = value], 1)
          [] OTHER -> halt(s1)

pushf(s) == add_ip(push_word(s, s.cpu.flags), 1)

popf(s) ==
    add_ip([pop_word_state(s) EXCEPT !.cpu.flags = pop_word_value(s)], 1)

(* ------------------------------------------------------------------ *)
(* opcode.h: control flow                                              *)
(* ------------------------------------------------------------------ *)
imm8_at(s, k) == cpu_read_byte(s.ram, cpu_get_pc(s.cpu) + k)

imm16_at(s, k) == cpu_read_word(s.ram, cpu_get_pc(s.cpu) + k)

jmpf(s) ==
    [s EXCEPT !.cpu.ip = imm16_at(s, 1), !.cpu.cs = imm16_at(s, 3)]

(* a call that pushes the offset of the CALL itself *)
call_near_push_own_ip(s) ==
    add_ip(push_word(s, s.cpu.ip), S16(imm16_at(s, 1)) + 3)

call_near(s) ==
    LET offset == S16(imm16_at(s, 1))
    IN  add_ip(push_word(s, U16(s.cpu.ip + 3)), offset + 3)

call_far(s) ==
    LET new_ip == imm16_at(s, 1)
        new_cs == imm16_at(s, 3)
        s1 == push_word(push_word(s, s.cpu.cs), U16(s.cpu.ip + 5))
    IN  [s1 EXCEPT !.cpu.cs = new_cs, !.cpu.ip = new_ip]

ret_near(s) == [pop_word_state(s) EXCEPT !.cpu.ip = pop_word_value(s)]

ret_near_pop(s) ==
    LET pop_bytes == imm16_at(s, 1)
        s1 == ret_near(s)
    IN  [s1 EXCEPT !.cpu.sp = U16(@ + pop_bytes)]

ret_far(s) ==
    LET s1 == [pop_word_state(s) EXCEPT !.cpu.ip = pop_word_value(s)]
    IN  [pop_word_state(s1) EXCEPT !.cpu.cs = pop_word_value(s1)]

ret_far_pop(s) ==
    LET pop_bytes == imm16_at(s, 1)
        s1 == ret_far(s)
    IN  [s1 EXCEPT !.cpu.sp = U16(@ + pop_bytes)]

(* the common body of int_op, int3 and into: len is the INT's length *)
interrupt(s, vector, len) ==
    LET s1 == push_word(push_word(push_word(s, s.cpu.flags), s.cpu.cs),
                        U16(s.cpu.ip + len))
        c2 == clear_flag(clear_flag(s1.cpu, FLAGS_INT), FLAGS_TF)
        ivt_addr == vector * 4
    IN  [s1 EXCEPT !.cpu = [c2 EXCEPT !.ip = cpu_read_word(s1.ram, ivt_addr),
                                      !.cs = cpu_read_word(s1.ram, ivt_addr + 2)]]

(* an INT that pushes the offset of its own second byte *)
int_op_short_return(s) == interrupt(s, imm8_at(s, 1), 1)

int_op(s) == interrupt(s, imm8_at(s, 1), 2)

int3(s) == interrupt(s, 3, 1)

into(s) == IF FLAG_TST(s.cpu, FLAGS_OV) THEN interrupt(s, 4, 1) ELSE add_ip(s, 1)

iret(s) ==
    LET s1 == ret_far(s)
    IN  [pop_word_state(s1) EXCEPT !.cpu.flags = pop_word_value(s1)]

jmp_short(s) == add_ip(s, S8(imm8_at(s, 1)) + 2)

jmp_near(s) == add_ip(s, S16(imm16_at(s, 1)) + 3)

(* a LOOP that tests CX as it was before the decrement *)
loop_op_tests_old_cx(s) ==
    IF s.cpu.cx # 0
    THEN add_ip([s EXCEPT !.cpu.cx = U16(@ - 1)], S8(imm8_at(s, 1)) + 2)
    ELSE add_ip([s EXCEPT !.cpu.cx = U16(@ - 1)], 2)

loop_op(s) ==
    LET displacement == S8(imm8_at(s, 1))
        s1 == [s EXCEPT !.cpu.cx = U16(@ - 1)]
    IN  IF s1.cpu.cx # 0 THEN add_ip(s1, displacement + 2) ELSE add_ip(s1, 2)

loopz(s) ==
    LET displacement == S8(imm8_at(s, 1))
        s1 == [s EXCEPT !.cpu.cx = U16(@ - 1)]
    IN  IF s1.cpu.cx # 0 /\ FLAG_TST(s1.cpu, FLAGS_ZF)
        THEN add_ip(s1, displacement + 2) ELSE add_ip(s1, 2)

loopnz(s) ==
    LET displacement == S8(imm8_at(s, 1))
        s1 == [s EXCEPT !.cpu.cx = U16(@ - 1)]
    IN  IF s1.cpu.cx # 0 /\ ~FLAG_TST(s1.cpu, FLAGS_ZF)
        THEN add_ip(s1, displacement + 2) ELSE add_ip(s1, 2)

jcxz(s) ==
    LET displacement == S8(imm8_at(s, 1))
    IN  IF s.cpu.cx = 0 THEN add_ip(s, displacement + 2) ELSE add_ip(s, 2)

(* a condition that holds whatever the flags are *)
jcc_condition_always(c, nibble) == TRUE

jcc_condition(c, nibble) ==
    CASE nibble = 0 -> FLAG_TST(c, FLAGS_OV)
      [] nibble = 1 -> ~FLAG_TST(c, FLAGS_OV)
      [] nibble = 2 -> FLAG_TST(c, FLAGS_CF)
      [] nibble = 3 -> ~FLAG_TST(c, FLAGS_CF)
      [] nibble = 4 -> FLAG_TST(c, FLAGS_ZF)
      [] nibble = 5 -> ~FLAG_TST(c, FLAGS_ZF)
      [] nibble = 6 -> FLAG_TST(c, FLAGS_CF) \/ FLAG_TST(c, FLAGS_ZF)
      [] nibble = 7 -> ~FLAG_TST(c, FLAGS_CF) /\ ~FLAG_TST(c, FLAGS_ZF)
      [] nibble = 8 -> FLAG_TST(c, FLAGS_SF)
      [] nibble = 9 -> ~FLAG_TST(c, FLAGS_SF)
      [] nibble = 10 -> FLAG_TST(c, FLAGS_PF)
      [] nibble = 11 -> ~FLAG_TST(c, FLAGS_PF)
      [] nibble = 12 -> FLAG_TST(c, FLAGS_SF) # FLAG_TST(c, FLAGS_OV)
      [] nibble = 13 -> FLAG_TST(c, FLAGS_SF) = FLAG_TST(c, FLAGS_OV)
      [] nibble = 14 -> FLAG_TST(c, FLAGS_ZF)
                        \/ (FLAG_TST(c, FLAGS_SF) # FLAG_TST(c, FLAGS_OV))
      [] nibble = 15 -> ~FLAG_TST(c, FLAGS_ZF)
                        /\ (FLAG_TST(c, FLAGS_SF) = FLAG_TST(c, FLAGS_OV))

jcc(s) ==
    LET opcode == opcode_at_pc(s)
        displacement == S8(imm8_at(s, 1))
        condition == jcc_condition(s.cpu, BitAnd(opcode, 15))
    IN  IF condition THEN add_ip(add_ip(s, 2), displacement) ELSE add_ip(s, 2)

(* ------------------------------------------------------------------ *)
(* opcode.h: flag register, data movement                              *)
(* ------------------------------------------------------------------ *)
sahf(s) ==
    add_ip([s EXCEPT !.cpu.flags =
                BitOr(BitOr(BitAnd(@, 65280), BitAnd(Hi(s.cpu.ax), 213)), 2)], 1)

lahf(s) ==
    add_ip([s EXCEPT !.cpu.ax = WithHi(@, BitAnd(s.cpu.flags, 215))], 1)

mov_modrm_decoded(s, modrm, is_byte, direction) ==
    add_ip(IF direction
           THEN reg_write(s, modrm.reg, is_byte, rm_read(s, modrm, is_byte))
           ELSE rm_write(s, modrm, is_byte, reg_read(s, modrm.reg, is_byte)),
           1 + modrm.length)

mov_modrm(s) ==
    mov_modrm_decoded(s, modrm_at(s), BitAnd(opcode_at_pc(s), 1) = 0,
                      BitAnd(opcode_at_pc(s), 2) # 0)

mov_rm_imm_decoded(s, modrm, is_byte) ==
    IF modrm.reg # 0 THEN add_ip(s, 1 + modrm.length)
    ELSE IF is_byte
    THEN add_ip(rm_write(s, modrm, TRUE, imm8_at(s, 1 + modrm.length)),
                1 + modrm.length + 1)
    ELSE add_ip(rm_write(s, modrm, FALSE, imm16_at(s, 1 + modrm.length)),
                1 + modrm.length + 2)

mov_rm_imm(s) == mov_rm_imm_decoded(s, modrm_at(s), opcode_at_pc(s) = 198)

mov_reg(s, reg) ==
    IF reg <= 7
    THEN add_ip([s EXCEPT !.cpu = set_reg8(@, reg, imm8_at(s, 1))], 2)
    ELSE add_ip([s EXCEPT !.cpu = set_reg16(@, reg - 8, imm16_at(s, 1))], 3)

mov(s) == mov_reg(s, BitAnd(opcode_at_pc(s), 15))

pop_rm_decoded(s, modrm) ==
    add_ip(rm_write(pop_word_state(s), modrm, FALSE, pop_word_value(s)),
           1 + modrm.length)

pop_rm(s) == pop_rm_decoded(s, modrm_at(s))

xchg_modrm_decoded(s, modrm, is_byte) ==
    add_ip(rm_write(reg_write(s, modrm.reg, is_byte,
                              rm_read(s, modrm, is_byte)),
                    modrm, is_byte, reg_read(s, modrm.reg, is_byte)),
           1 + modrm.length)

xchg_modrm(s) ==
    xchg_modrm_decoded(s, modrm_at(s), BitAnd(opcode_at_pc(s), 1) = 0)

xchg_reg(s, reg) ==
    IF reg # 0
    THEN add_ip([s EXCEPT !.cpu = set_reg16([@ EXCEPT !.ax = get_reg16(s.cpu, reg)],
                                            reg, s.cpu.ax)], 1)
    ELSE add_ip(s, 1)

xchg_ax(s) == xchg_reg(s, BitAnd(opcode_at_pc(s), 7))

(* a HLT that steps over its byte and leaves the CPU running *)
hlt_keeps_running(s) == add_ip(s, 1)

hlt(s) == add_ip(halt(s), 1)

sti(s) == add_ip([s EXCEPT !.cpu = set_flag(@, FLAGS_INT)], 1)

cld(s) == add_ip([s EXCEPT !.cpu = clear_flag(@, FLAGS_DF)], 1)

std(s) == add_ip([s EXCEPT !.cpu = set_flag(@, FLAGS_DF)], 1)

(* ------------------------------------------------------------------ *)
(* opcode.h: two-operand arithmetic and logic                          *)
(* ------------------------------------------------------------------ *)
(* CF, OF, AF, then ZF/SF/PF as the add handlers set them: osrc and    *)
(* asrc are the source values handed to the OF and the AF check        *)
flags_add(c, osrc, asrc, dst, result, is_byte) ==
    update_flags_szp(
        chk_aux_carry_add(
            chk_overflow_add(chk_carry_add(c, result, is_byte),
                             U16(osrc), dst, U16(result), is_byte),
            asrc, dst),
        U16(result), is_byte)

(* the same for the subtract handlers: borrow is the CF condition *)
flags_sub(c, borrow, osrc, asrc, dst, result, is_byte) ==
    update_flags_szp(
        chk_aux_carry_sub(
            chk_overflow_sub(put_flag(c, FLAGS_CF, borrow),
                             U16(osrc), dst, U16(result), is_byte),
            asrc, dst),
        U16(result), is_byte)

(* the operands of a two-operand ModR/M form: to_reg is the direction  *)
(* bit, set when the register named by modrm.reg is the destination    *)
modrm_src(s, modrm, is_byte, to_reg) ==
    IF to_reg THEN rm_read(s, modrm, is_byte)
    ELSE reg_read(s, modrm.reg, is_byte)

modrm_dst(s, modrm, is_byte, to_reg) ==
    IF to_reg THEN reg_read(s, modrm.reg, is_byte)
    ELSE rm_read(s, modrm, is_byte)

modrm_store(s, modrm, is_byte, to_reg, v) ==
    IF to_reg THEN reg_write(s, modrm.reg, is_byte, v)
    ELSE rm_write(s, modrm, is_byte, v)

(* AL or AX written with v *)
acc_store(c, is_byte, v) ==
    IF is_byte THEN [c EXCEPT !.ax = WithLo(@, v)] ELSE [c EXCEPT !.ax = U16(v)]

acc_length(is_byte) == IF is_byte THEN 2 ELSE 3

carry_in(c) == IF BitAnd(c.flags, FLAGS_CF) # 0 THEN 1 ELSE 0

(* add_op, opcodes 0x00..0x03 *)
add_store(s, modrm, is_byte, direction, src, dst) ==
    add_ip([modrm_store(s, modrm, is_byte, direction, dst + src)
            EXCEPT !.cpu = flags_add(@, src, BitAnd(src, 255), dst, dst + src,
                                     is_byte)],
           1 + modrm.length)

add_modrm(s, modrm, is_byte, direction) ==
    add_store(s, modrm, is_byte, direction,
              modrm_src(s, modrm, is_byte, direction),
              modrm_dst(s, modrm, is_byte, direction))

(* add_op, opcodes 0x04 and 0x05 *)
add_acc(s, imm, dst, is_byte) ==
    add_ip([s EXCEPT !.cpu = flags_add(acc_store(s.cpu, is_byte, dst + imm),
                                       imm, BitAnd(imm, 255), dst, dst + imm,
                                       is_byte)],
           acc_length(is_byte))

add_decoded(s, opcode) ==
    IF opcode <= 3
    THEN add_modrm(s, modrm_at(s), BitAnd(opcode, 1) = 0, BitAnd(opcode, 2) # 0)
    ELSE IF opcode = 4 THEN add_acc(s, imm8_at(s, 1), Lo(s.cpu.ax), TRUE)
    ELSE add_acc(s, imm16_at(s, 1), s.cpu.ax, FALSE)

add_op(s) == add_decoded(s, opcode_at_pc(s))

(* sub_op and cmp_op differ only in storing the result *)
sub_cmp_store(s, modrm, is_byte, direction, store, src, dst) ==
    add_ip([(IF store
             THEN modrm_store(s, modrm, is_byte, direction, U16(dst - src))
             ELSE s)
            EXCEPT !.cpu = flags_sub(@, dst < src, src, BitAnd(src, 255), dst,
                                     U16(dst - src), is_byte)],
           1 + modrm.length)

sub_cmp_modrm(s, modrm, is_byte, direction, store) ==
    sub_cmp_store(s, modrm, is_byte, direction, store,
                  modrm_src(s, modrm, is_byte, direction),
                  modrm_dst(s, modrm, is_byte, direction))

sub_cmp_acc(s, imm, dst, is_byte, store) ==
    add_ip([s EXCEPT !.cpu =
                flags_sub(IF store
                          THEN acc_store(s.cpu, is_byte, U16(dst - imm))
                          ELSE s.cpu,
                          dst < imm, imm, BitAnd(imm, 255), dst,
                          U16(dst - imm), is_byte)],
           acc_length(is_byte))

sub_cmp_decoded(s, opcode, last_modrm, store) ==
    IF opcode <= last_modrm
    THEN sub_cmp_modrm(s, modrm_at(s), BitAnd(opcode, 1) = 0,
                       BitAnd(opcode, 2) # 0, store)
    ELSE IF opcode = last_modrm + 1
    THEN sub_cmp_acc(s, imm8_at(s, 1), Lo(s.cpu.ax), TRUE, store)
    ELSE sub_cmp_acc(s, imm16_at(s, 1), s.cpu.ax, FALSE, store)

sub_cmp(s, last_modrm, store) ==
    sub_cmp_decoded(s, opcode_at_pc(s), last_modrm, store)

sub_op(s) == sub_cmp(s, 43, TRUE)

cmp_op(s) == sub_cmp(s, 59, FALSE)

(* flags as ADD and SUB of 1 set them, CF included *)
inc_dec_flags_with_carry(c, dst, result, is_inc) ==
    IF is_inc THEN flags_add(c, 1, 1, dst, dst + 1, FALSE)
    ELSE flags_sub(c, dst < 1, 1, 1, dst, result, FALSE)

inc_dec_flags(c, dst, result, is_inc) ==
    update_flags_szp(
        IF is_inc
        THEN chk_aux_carry_add(chk_overflow_add(c, 1, dst, result, FALSE),
                               1, BitAnd(dst, 255))
        ELSE chk_aux_carry_sub(chk_overflow_sub(c, 1, dst, result, FALSE),
                               1, BitAnd(dst, 255)),
        result, FALSE)

inc_dec_reg16(s, reg, dst, result, is_inc) ==
    add_ip([s EXCEPT !.cpu = inc_dec_flags(set_reg16(s.cpu, reg, result),
                                           dst, result, is_inc)], 1)

inc_reg(s, reg) ==
    inc_dec_reg16(s, reg, get_reg16(s.cpu, reg),
                  U16(get_reg16(s.cpu, reg) + 1), TRUE)

dec_reg(s, reg) ==
    inc_dec_reg16(s, reg, get_reg16(s.cpu, reg),
                  U16(get_reg16(s.cpu, reg) - 1), FALSE)

inc_reg16(s) == inc_reg(s, BitAnd(opcode_at_pc(s), 7))

dec_reg16(s) == dec_reg(s, BitAnd(opcode_at_pc(s), 7))

(* or_op, and_op, xor_op: one body, the operation kind and the last    *)
(* ModR/M opcode of the family differ                                  *)
logic_store(s, modrm, is_byte, direction, result) ==
    add_ip([modrm_store(s, modrm, is_byte, direction, result)
            EXCEPT !.cpu = update_flags_logic(@, result, is_byte)],
           1 + modrm.length)

(* dst | src, dst & src or dst ^ src *)
logic_apply(kind, dst, src) ==
    CASE kind = "or" -> BitOr(dst, src)
      [] kind = "and" -> BitAnd(dst, src)
      [] OTHER -> BitXor(dst, src)

logic_modrm(s, kind, modrm, is_byte, direction) ==
    logic_store(s, modrm, is_byte, direction,
                logic_apply(kind, modrm_dst(s, modrm, is_byte, direction),
                            modrm_src(s, modrm, is_byte, direction)))

logic_acc(s, result, is_byte) ==
    add_ip([s EXCEPT !.cpu = update_flags_logic(
                                 acc_store(s.cpu, is_byte, result),
                                 result, is_byte)],
           acc_length(is_byte))

logic_decoded(s, kind, opcode, last_modrm) ==
    IF opcode <= last_modrm
    THEN logic_modrm(s, kind, modrm_at(s), BitAnd(opcode, 1) = 0,
                     BitAnd(opcode, 2) # 0)
    ELSE IF opcode = last_modrm + 1
    THEN logic_acc(s, logic_apply(kind, Lo(s.cpu.ax), imm8_at(s, 1)), TRUE)
    ELSE logic_acc(s, logic_apply(kind, s.cpu.ax, imm16_at(s, 1)), FALSE)

logic_op(s, kind, last_modrm) ==
    logic_decoded(s, kind, opcode_at_pc(s), last_modrm)

or_op(s) == logic_op(s, "or", 11)

and_op(s) == logic_op(s, "and", 35)

xor_op(s) == logic_op(s, "xor", 51)

test_flags(s, result, is_byte, length) ==
    add_ip([s EXCEPT !.cpu = update_flags_logic(@, result, is_byte)], length)

test_modrm(s, modrm, is_byte) ==
    test_flags(s, BitAnd(rm_read(s, modrm, is_byte),
                         reg_read(s, modrm.reg, is_byte)),
               is_byte, 1 + modrm.length)

test_decoded(s, opcode) ==
    IF opcode <= 133 THEN test_modrm(s, modrm_at(s), BitAnd(opcode, 1) = 0)
    ELSE IF opcode = 168
    THEN test_flags(s, BitAnd(Lo(s.cpu.ax), imm8_at(s, 1)), TRUE, 2)
    ELSE test_flags(s, BitAnd(s.cpu.ax, imm16_at(s, 1)), FALSE, 3)

test_op(s) == test_decoded(s, opcode_at_pc(s))

(* adc_op, opcodes 0x10..0x13: flags first, then the store *)
adc_store(s, modrm, is_byte, rm_is_dst, carry, src, dst) ==
    add_ip(modrm_store([s EXCEPT !.cpu = flags_add(@, src + carry,
                                                   U8(src) + carry, dst,
                                                   dst + src + carry, is_byte)],
                       modrm, is_byte, ~rm_is_dst, dst + src + carry),
           1 + modrm.length)

adc_modrm(s, modrm, is_byte, rm_is_dst) ==
    adc_store(s, modrm, is_byte, rm_is_dst, carry_in(s.cpu),
              modrm_src(s, modrm, is_byte, ~rm_is_dst),
              modrm_dst(s, modrm, is_byte, ~rm_is_dst))

(* adc_op, opcode 0x14 *)
adc_al_flags(c, imm, al, carry) ==
    update_flags_szp(
        chk_aux_carry_add(
            chk_overflow_add(chk_carry_add(c, al + imm + carry, TRUE),
                             imm + carry, al, U8(al + imm + carry), TRUE),
            imm + carry, al),
        U8(al + imm + carry), TRUE)

adc_al(s, imm, al, carry) ==
    add_ip([s EXCEPT !.cpu = acc_store(adc_al_flags(s.cpu, imm, al, carry),
                                       TRUE, U8(al + imm + carry))], 2)

(* adc_op, opcode 0x15 *)
adc_ax(s, imm, ax, carry) ==
    add_ip([s EXCEPT !.cpu = acc_store(flags_add(s.cpu, imm + carry,
                                                 U8(imm + carry), ax,
                                                 ax + imm + carry, FALSE),
                                       FALSE, ax + imm + carry)], 3)

adc_decoded(s, opcode) ==
    IF opcode <= 19
    THEN adc_modrm(s, modrm_at(s), BitAnd(opcode, 1) = 0,
                   IF BitAnd(opcode, 1) = 0 THEN opcode = 16 ELSE opcode = 17)
    ELSE IF opcode = 20
    THEN adc_al(s, imm8_at(s, 1), Lo(s.cpu.ax), carry_in(s.cpu))
    ELSE adc_ax(s, imm16_at(s, 1), s.cpu.ax, carry_in(s.cpu))

adc_op(s) == adc_decoded(s, opcode_at_pc(s))

(* sbb_op, opcodes 0x18..0x1B *)
sbb_store(s, modrm, is_byte, rm_is_dst, carry, src, dst) ==
    add_ip(modrm_store([s EXCEPT !.cpu = flags_sub(@, dst < src + carry,
                                                   src + carry,
                                                   U8(src + carry), dst,
                                                   U16(dst - src - carry),
                                                   is_byte)],
                       modrm, is_byte, ~rm_is_dst, U16(dst - src - carry)),
           1 + modrm.length)

sbb_modrm(s, modrm, is_byte, rm_is_dst) ==
    sbb_store(s, modrm, is_byte, rm_is_dst, carry_in(s.cpu),
              modrm_src(s, modrm, is_byte, ~rm_is_dst),
              modrm_dst(s, modrm, is_byte, ~rm_is_dst))

(* sbb_op, opcodes 0x1C and 0x1D *)
sbb_acc_result(acc, imm, carry, is_byte) ==
    IF is_byte THEN U8(acc - imm - carry) ELSE U16(acc - imm - carry)

sbb_acc(s, imm, acc, carry, is_byte) ==
    add_ip([s EXCEPT !.cpu =
                acc_store(flags_sub(s.cpu, acc < imm + carry, imm + carry,
                                    U8(imm + carry), acc,
                                    sbb_acc_result(acc, imm, carry, is_byte),
                                    is_byte),
                          is_byte, sbb_acc_result(acc, imm, carry, is_byte))],
           acc_length(is_byte))

sbb_decoded(s, opcode) ==
    IF opcode <= 27
    THEN sbb_modrm(s, modrm_at(s), BitAnd(opcode, 1) = 0,
                   IF BitAnd(opcode, 1) = 0 THEN opcode = 24 ELSE opcode = 25)
    ELSE IF opcode = 28
    THEN sbb_acc(s, imm8_at(s, 1), Lo(s.cpu.ax), carry_in(s.cpu), TRUE)
    ELSE sbb_acc(s, imm16_at(s, 1), s.cpu.ax, carry_in(s.cpu), FALSE)

sbb_op(s) == sbb_decoded(s, opcode_at_pc(s))

(* ------------------------------------------------------------------ *)
(* opcode.h: decimal and ASCII adjust, sign extension                  *)
(* ------------------------------------------------------------------ *)
(* al += k (DAA, AAA) or al -= k (DAS, AAS) on a uint8_t *)
u8_step(is_add, a, k) == IF is_add THEN U8(a + k) ELSE U8(a - k)

(* DAA and DAS: low and high are the two adjustments that apply *)
decimal_adjust_al(old_al, low, high, is_add) ==
    IF high
    THEN u8_step(is_add, IF low THEN u8_step(is_add, old_al, 6) ELSE old_al, 96)
    ELSE IF low THEN u8_step(is_add, old_al, 6) ELSE old_al

decimal_adjust_store(s, al, low, high) ==
    add_ip([s EXCEPT !.cpu = update_flags_szp(
                put_flag([put_flag(s.cpu, FLAGS_AF, low)
                            EXCEPT !.ax = WithLo(@, al)],
                         FLAGS_CF, high),
                al, TRUE)], 1)

decimal_adjust_cases(s, old_al, low, high, is_add) ==
    decimal_adjust_store(s, decimal_adjust_al(old_al, low, high, is_add),
                         low, high)

decimal_adjust(s, is_add) ==
    decimal_adjust_cases(s, Lo(s.cpu.ax),
                         BitAnd(Lo(s.cpu.ax), 15) > 9
                         \/ BitAnd(s.cpu.flags, FLAGS_AF) # 0,
                         Lo(s.cpu.ax) > 153
                         \/ BitAnd(s.cpu.flags, FLAGS_CF) # 0,
                         is_add)

daa(s) == decimal_adjust(s, TRUE)

das(s) == decimal_adjust(s, FALSE)

(* AAA and AAS *)
ascii_adjust_case(s, adj, is_add) ==
    add_ip([s EXCEPT !.cpu =
                [put_flag(put_flag(s.cpu, FLAGS_AF, adj), FLAGS_CF, adj)
                   EXCEPT !.ax =
                       WithHi(WithLo(@, BitAnd(IF adj
                                               THEN u8_step(is_add, Lo(s.cpu.ax), 6)
                                               ELSE Lo(s.cpu.ax), 15)),
                              IF adj THEN u8_step(is_add, Hi(s.cpu.ax), 1)
                              ELSE Hi(s.cpu.ax))]], 1)

ascii_adjust(s, is_add) ==
    ascii_adjust_case(s, BitAnd(Lo(s.cpu.ax), 15) > 9
                         \/ BitAnd(s.cpu.flags, FLAGS_AF) # 0, is_add)

aaa(s) == ascii_adjust(s, TRUE)

aas(s) == ascii_adjust(s, FALSE)

aam(s) ==
    LET base == imm8_at(s, 1)
        al == Lo(s.cpu.ax)
    IN  IF base = 0 THEN halt(s)
        ELSE LET c1 == [s.cpu EXCEPT !.ax = WithHi(WithLo(@, al % base), al \div base)]
             IN  add_ip([s EXCEPT !.cpu = update_flags_szp(c1, al % base, TRUE)], 2)

aad(s) ==
    LET base == imm8_at(s, 1)
        al == U8(Hi(s.cpu.ax) * base + Lo(s.cpu.ax))
        c1 == [s.cpu EXCEPT !.ax = WithHi(WithLo(@, al), 0)]
    IN  add_ip([s EXCEPT !.cpu = update_flags_szp(c1, al, TRUE)], 2)

salc(s) ==
    add_ip([s EXCEPT !.cpu.ax =
                WithLo(@, IF BitAnd(s.cpu.flags, FLAGS_CF) # 0 THEN 255 ELSE 0)], 1)

xlat(s) ==
    LET addr == cpu_calc_addr(s.cpu.ds, U16(s.cpu.bx + Lo(s.cpu.ax)))
    IN  add_ip([s EXCEPT !.cpu.ax = WithLo(@, cpu_read_byte(s.ram, addr))], 1)

esc_op(s) == add_ip(s, 1 + modrm_at(s).length)

cbw(s) ==
    add_ip([s EXCEPT !.cpu.ax =
                WithHi(@, IF BitAnd(Lo(s.cpu.ax), 128) # 0 THEN 255 ELSE 0)], 1)

cwd(s) ==
    add_ip([s EXCEPT !.cpu.dx =
                IF BitAnd(s.cpu.ax, 32768) # 0 THEN 65535 ELSE 0], 1)

(* ------------------------------------------------------------------ *)
(* opcode.h: LEA, LDS, LES, MOV Sreg, MOV accumulator/direct           *)
(* ------------------------------------------------------------------ *)
lea_decoded(s, modrm) ==
    IF ~modrm.is_memory THEN halt(s)
    ELSE add_ip([s EXCEPT !.cpu = set_reg16(@, modrm.reg,
                                            BitAnd(modrm.ea, 65535))],
                modrm.length)

lea(s) == lea_decoded(s, modrm_at(s))

(* LDS (seg = "ds") and LES (seg = "es") *)
load_far_pointer_decoded(s, seg, modrm) ==
    IF ~modrm.is_memory THEN halt(s)
    ELSE add_ip([s EXCEPT !.cpu =
                     [set_reg16(@, modrm.reg, cpu_read_word(s.ram, modrm.ea))
                        EXCEPT ![seg] = cpu_read_word(s.ram, modrm.ea + 2)]],
                modrm.length)

load_far_pointer(s, seg) == load_far_pointer_decoded(s, seg, modrm_at(s))

lds(s) == load_far_pointer(s, "ds")

les(s) == load_far_pointer(s, "es")

(* the segment register a ModR/M reg field 0..3 names *)
mov_seg_name(reg) ==
    CASE reg = 0 -> "es"
      [] reg = 1 -> "cs"
      [] reg = 2 -> "ss"
      [] OTHER -> "ds"

mov_seg_decoded(s, opcode, modrm) ==
    IF modrm.reg > 3 THEN halt(s)
    ELSE IF opcode = 140
    THEN add_ip(rm_write(s, modrm, FALSE, s.cpu[mov_seg_name(modrm.reg)]),
                modrm.length)
    ELSE add_ip([s EXCEPT !.cpu[mov_seg_name(modrm.reg)] =
                     rm_read(s, modrm, FALSE)],
                modrm.length)

mov_seg(s) == mov_seg_decoded(s, opcode_at_pc(s), modrm_at(s))

mov_mem(s) ==
    LET opcode == opcode_at_pc(s)
        offset == imm16_at(s, 1)
        addr == Shl(s.cpu.ds, 4) + offset
    IN  CASE opcode = 160 ->
               add_ip([s EXCEPT !.cpu.ax = WithLo(@, cpu_read_byte(s.ram, addr))], 3)
          [] opcode = 161 ->
               add_ip([s EXCEPT !.cpu.ax = cpu_read_word(s.ram, addr)], 3)
          [] opcode = 162 ->
               add_ip([s EXCEPT !.ram = cpu_write_byte(@, addr, Lo(s.cpu.ax))], 3)
          [] opcode = 163 ->
               add_ip([s EXCEPT !.ram = cpu_write_word(@, addr, s.cpu.ax)], 3)
          [] OTHER -> s

(* ------------------------------------------------------------------ *)
(* opcode.h: Group 3 (0xF6, 0xF7)                                      *)
(* ------------------------------------------------------------------ *)
(* 32-bit quantities are kept as their two 16-bit halves.              *)
(* (uint32_t)a * b for 16-bit a, b, from the partial products by the   *)
(* two bytes of b                                                      *)
mul32(a, b) ==
    LET p0 == a * Lo(b)
        p1 == a * Hi(b)
        t == p0 + (p1 % 256) * 256
    IN  [lo |-> t % 65536, hi |-> ((p1 \div 256) + (t \div 65536)) % 65536]

(* (hi:lo) / d and (hi:lo) % d for hi < d, by long division in base 256 *)
udiv32(hi, lo, d) ==
    LET t1 == hi * 256 + Hi(lo)
        t2 == (t1 % d) * 256 + Lo(lo)
    IN  [q |-> (t1 \div d) * 256 + (t2 \div d), r |-> t2 % d]

(* the magnitude of the signed 32-bit value hi:lo, as halves *)
abs32(hi, lo) ==
    IF hi < 32768 THEN [hi |-> hi, lo |-> lo]
    ELSE [hi |-> U16(0 - hi - (IF lo # 0 THEN 1 ELSE 0)), lo |-> U16(0 - lo)]

(* C integer division and remainder: the quotient truncates toward 0 *)
Abs(x) == IF x < 0 THEN 0 - x ELSE x

c_div(a, b) ==
    IF (a < 0) = (b < 0) THEN Abs(a) \div Abs(b) ELSE 0 - (Abs(a) \div Abs(b))

c_rem(a, b) == a - c_div(a, b) * b

mul_flags(c, clear) ==
    IF clear THEN clear_flag(clear_flag(c, FLAGS_CF), FLAGS_OV)
    ELSE set_flag(set_flag(c, FLAGS_CF), FLAGS_OV)

grp3_test(s, modrm, is_byte, operand) ==
    add_ip([s EXCEPT !.cpu = update_flags_logic(
                @, BitAnd(operand, IF is_byte THEN imm8_at(s, 1 + modrm.length)
                                   ELSE imm16_at(s, 1 + modrm.length)),
                is_byte)],
           1 + modrm.length + (IF is_byte THEN 1 ELSE 2))

grp3_not(s, modrm, is_byte, operand) ==
    add_ip(rm_write(s, modrm, is_byte,
                    IF is_byte THEN BitAnd(Not16(operand), 255)
                    ELSE Not16(operand)),
           1 + modrm.length)

grp3_neg_flags(c, is_byte, operand, result) ==
    update_flags_szp(
        chk_aux_carry_sub(
            chk_overflow_sub(put_flag(c, FLAGS_CF, result # 0),
                             operand, 0, result, is_byte),
            operand, 0),
        result, is_byte)

grp3_neg_store(s, modrm, is_byte, operand, result) ==
    add_ip(rm_write([s EXCEPT !.cpu = grp3_neg_flags(@, is_byte, operand, result)],
                    modrm, is_byte, result),
           1 + modrm.length)

(* the one's complement stored where NEG stores the two's complement *)
grp3_neg_ones_complement(s, modrm, is_byte, operand) ==
    grp3_neg_store(s, modrm, is_byte, operand,
                   IF is_byte THEN 255 - operand ELSE 65535 - operand)

grp3_neg(s, modrm, is_byte, operand) ==
    grp3_neg_store(s, modrm, is_byte, operand,
                   IF is_byte THEN BitAnd(U16(0 - operand), 255)
                   ELSE U16(0 - operand))

(* AX = result, or DX:AX = hi:lo, then CF and OF from clear *)
grp3_mul_store(s, modrm, lo, hi, is_byte, clear) ==
    add_ip([s EXCEPT !.cpu = mul_flags(IF is_byte THEN [@ EXCEPT !.ax = lo]
                                       ELSE [@ EXCEPT !.ax = lo, !.dx = hi],
                                       clear)],
           1 + modrm.length)

grp3_mul_byte(s, modrm, result) ==
    grp3_mul_store(s, modrm, result, 0, TRUE, Hi(result) = 0)

grp3_mul_word(s, modrm, result) ==
    grp3_mul_store(s, modrm, result.lo, result.hi, FALSE, result.hi = 0)

grp3_mul(s, modrm, is_byte, operand) ==
    IF is_byte THEN grp3_mul_byte(s, modrm, U16(Lo(s.cpu.ax) * operand))
    ELSE grp3_mul_word(s, modrm, mul32(s.cpu.ax, operand))

grp3_imul_byte(s, modrm, result) ==
    grp3_mul_store(s, modrm, result, 0, TRUE,
                   S8(Hi(result)) = 0 \/ S8(Hi(result)) = -1)

(* result is the signed 32-bit product *)
grp3_imul_word(s, modrm, result) ==
    grp3_mul_store(s, modrm, U16(result), U16(result \div 65536), FALSE,
                   S16(U16(result \div 65536)) = 0
                   \/ S16(U16(result \div 65536)) = -1)

grp3_imul(s, modrm, is_byte, operand) ==
    IF is_byte
    THEN grp3_imul_byte(s, modrm, U16(S8(Lo(s.cpu.ax)) * S8(operand)))
    ELSE grp3_imul_word(s, modrm, S16(s.cpu.ax) * S16(operand))

(* quotient and remainder written after the range check passed *)
grp3_div_store(s, modrm, is_byte, quotient, remainder) ==
    add_ip(IF is_byte
           THEN [s EXCEPT !.cpu.ax = WithHi(WithLo(@, U8(quotient)), U8(remainder))]
           ELSE [s EXCEPT !.cpu.ax = U16(quotient), !.cpu.dx = U16(remainder)],
           1 + modrm.length)

grp3_div_byte(s, modrm, dividend, operand) ==
    IF dividend \div operand > 255 THEN halt(s)
    ELSE grp3_div_store(s, modrm, TRUE, dividend \div operand, dividend % operand)

grp3_div_word(s, modrm, d) == grp3_div_store(s, modrm, FALSE, d.q, d.r)

grp3_div(s, modrm, is_byte, operand) ==
    IF operand = 0 THEN halt(s)
    ELSE IF is_byte THEN grp3_div_byte(s, modrm, s.cpu.ax, operand)
    ELSE IF s.cpu.dx >= operand THEN halt(s)      \* quotient_check > 0xFFFF
    ELSE grp3_div_word(s, modrm, udiv32(s.cpu.dx, s.cpu.ax, operand))

grp3_idiv_byte(s, modrm, dividend, divisor, quotient_check) ==
    IF quotient_check > 127 \/ quotient_check < -128 THEN halt(s)
    ELSE grp3_div_store(s, modrm, TRUE, quotient_check, c_rem(dividend, divisor))

grp3_idiv_signed(s, modrm, quotient_check, remainder) ==
    IF quotient_check > 32767 \/ quotient_check < -32768 THEN halt(s)
    ELSE grp3_div_store(s, modrm, FALSE, quotient_check, remainder)

(* d is the quotient and remainder of the magnitudes *)
grp3_idiv_magnitudes(s, modrm, negative, divisor, d) ==
    grp3_idiv_signed(s, modrm,
                     IF negative = (divisor < 0) THEN d.q ELSE 0 - d.q,
                     IF negative THEN 0 - d.r ELSE d.r)

(* The word form divides two signed 32-bit ints: INT32_MIN / -1 is     *)
(* undefined in C. s.ub is the outcome the build produces: "trap" (the *)
(* x86 idiv raises SIGFPE and the process dies inside do_op) or "wrap" *)
(* (the quotient comes out as INT32_MIN and fails the range check).    *)
grp3_idiv_word(s, modrm, mag, divisor) ==
    IF s.cpu.dx = 32768 /\ s.cpu.ax = 0 /\ divisor = -1
    THEN IF s.ub = "trap" THEN [s EXCEPT !.fault = "SIGFPE"] ELSE halt(s)
    ELSE IF mag.hi >= Abs(divisor) THEN halt(s)   \* |quotient| > 0xFFFF
    ELSE grp3_idiv_magnitudes(s, modrm, s.cpu.dx >= 32768, divisor,
                              udiv32(mag.hi, mag.lo, Abs(divisor)))

grp3_idiv(s, modrm, is_byte, operand) ==
    IF operand = 0 THEN halt(s)
    ELSE IF is_byte
    THEN grp3_idiv_byte(s, modrm, S16(s.cpu.ax), S8(operand),
                        S16(c_div(S16(s.cpu.ax), S8(operand))))
    ELSE grp3_idiv_word(s, modrm, abs32(s.cpu.dx, s.cpu.ax), S16(operand))

grp3_operand(s, modrm, is_byte, operand) ==
    CASE modrm.reg = 0 -> grp3_test(s, modrm, is_byte, operand)
      [] modrm.reg = 2 -> grp3_not(s, modrm, is_byte, operand)
      [] modrm.reg = 3 -> grp3_neg(s, modrm, is_byte, operand)
      [] modrm.reg = 4 -> grp3_mul(s, modrm, is_byte, operand)
      [] modrm.reg = 5 -> grp3_imul(s, modrm, is_byte, operand)
      [] modrm.reg = 6 -> grp3_div(s, modrm, is_byte, operand)
      [] modrm.reg = 7 -> grp3_idiv(s, modrm, is_byte, operand)
      [] OTHER -> halt(s)

grp3_decoded(s, modrm, is_byte) ==
    grp3_operand(s, modrm, is_byte, rm_read(s, modrm, is_byte))

grp3(s) == grp3_decoded(s, modrm_at(s), opcode_at_pc(s) = 246)

(* ------------------------------------------------------------------ *)
(* opcode.h: shift_rotate_op (0xD0..0xD3)                              *)
(* ------------------------------------------------------------------ *)
(* one pass of the body of the for loop of operation op; st holds the  *)
(* locals result (r), new_cf (ncf) and old_cf (ocf)                    *)
sr_step(op, is_byte, st) ==
    LET top == IF is_byte THEN 128 ELSE 32768
        mask == IF is_byte THEN 255 ELSE 65535
        msb == BitAnd(st.r, top) # 0
        lsb == BitAnd(st.r, 1) # 0
        left == Shl(st.r, 1)
        right == Shr(st.r, 1)
    IN  CASE op = 0 ->
               [st EXCEPT !.ncf = msb,
                          !.r = BitAnd(BitOr(left, IF msb THEN 1 ELSE 0), mask)]
          [] op = 1 ->
               [st EXCEPT !.ncf = lsb,
                          !.r = BitAnd(BitOr(right, IF lsb THEN top ELSE 0), mask)]
          [] op = 2 ->
               [st EXCEPT !.ncf = msb, !.ocf = msb,
                          !.r = BitAnd(BitOr(left, IF st.ocf THEN 1 ELSE 0), mask)]
          [] op = 3 ->
               [st EXCEPT !.ncf = lsb, !.ocf = lsb,
                          !.r = BitAnd(BitOr(right, IF st.ocf THEN top ELSE 0), mask)]
          [] op = 4 \/ op = 6 ->
               [st EXCEPT !.ncf = msb, !.r = BitAnd(left, mask)]
          [] op = 5 ->
               [st EXCEPT !.ncf = lsb, !.r = right]
          [] OTHER ->
               [st EXCEPT !.ncf = lsb, !.r = BitOr(right, IF msb THEN top ELSE 0)]

RECURSIVE sr_loop(_, _, _, _)
sr_loop(op, is_byte, st, n) ==
    IF n = 0 THEN st ELSE sr_loop(op, is_byte, sr_step(op, is_byte, st), n - 1)

(* the flags after the loop: c_cf is c with CF set from new_cf when    *)
(* count > 0                                                          *)
sr_top(is_byte) == IF is_byte THEN 128 ELSE 32768

(* CF written from new_cf even when the loop has not run *)
sr_flags_cf_always(c, count, st) == put_flag(c, FLAGS_CF, st.ncf)

sr_flags_cf(c, count, st) ==
    IF count > 0 THEN put_flag(c, FLAGS_CF, st.ncf) ELSE c

(* OF of the shifts, on c1 = c_cf with SF/ZF/PF set and AF cleared *)
(* OF of SHR taken from the result, as for SHL *)
sr_flags_shift_ov_result(c1, op, is_byte, count, value, st) ==
    IF count # 1 \/ op = 7 THEN clear_flag(c1, FLAGS_OV)
    ELSE put_flag(c1, FLAGS_OV, (BitAnd(st.r, sr_top(is_byte)) # 0) # st.ncf)

sr_flags_shift_ov(c1, op, is_byte, count, value, st) ==
    IF count # 1 \/ op = 7 THEN clear_flag(c1, FLAGS_OV)
    ELSE IF op = 5
    THEN put_flag(c1, FLAGS_OV, BitAnd(value, sr_top(is_byte)) # 0)
    ELSE put_flag(c1, FLAGS_OV, (BitAnd(st.r, sr_top(is_byte)) # 0) # st.ncf)

sr_flags_after_cf(c, c_cf, op, is_byte, count, value, st) ==
    IF op = 0 \/ op = 2
    THEN IF count = 1
         THEN put_flag(c_cf, FLAGS_OV,
                       (BitAnd(st.r, sr_top(is_byte)) # 0)
                       # FLAG_TST(c_cf, FLAGS_CF))
         ELSE c_cf
    ELSE IF op = 1 \/ op = 3
    THEN IF count = 1
         THEN put_flag(c_cf, FLAGS_OV,
                       (BitAnd(st.r, sr_top(is_byte)) # 0)
                       # (BitAnd(st.r, sr_top(is_byte) \div 2) # 0))
         ELSE c_cf
    ELSE IF count = 0 THEN c
    ELSE sr_flags_shift_ov(
             clear_flag(update_flags_szp(c_cf, st.r, is_byte), FLAGS_AF),
             op, is_byte, count, value, st)

sr_flags(c, op, is_byte, count, value, st) ==
    sr_flags_after_cf(c, sr_flags_cf(c, count, st), op, is_byte, count,
                      value, st)

shift_rotate_store(s, modrm, is_byte, count, value, st) ==
    add_ip(rm_write([s EXCEPT !.cpu = sr_flags(@, modrm.reg, is_byte, count,
                                               value, st)],
                    modrm, is_byte,
                    IF is_byte THEN BitAnd(st.r, 255) ELSE st.r),
           1 + modrm.length)

shift_rotate_value(s, modrm, is_byte, count, value) ==
    shift_rotate_store(s, modrm, is_byte, count, value,
                       sr_loop(modrm.reg, is_byte,
                               [r |-> value, ncf |-> FALSE,
                                ocf |-> FLAG_TST(s.cpu, FLAGS_CF)], count))

shift_rotate_decoded(s, modrm, is_byte, use_cl) ==
    shift_rotate_value(s, modrm, is_byte,
                       BitAnd(IF use_cl THEN Lo(s.cpu.cx) ELSE 1, 31),
                       rm_read(s, modrm, is_byte))

shift_rotate_op(s) ==
    shift_rotate_decoded(s, modrm_at(s), BitAnd(opcode_at_pc(s), 1) = 0,
                         BitAnd(opcode_at_pc(s), 2) # 0)

(* ------------------------------------------------------------------ *)
(* opcode.h: string operations                                         *)
(* ------------------------------------------------------------------ *)
(* the step of an index register with DF left out of account *)
string_delta_forward(c, is_byte) == IF is_byte THEN 1 ELSE 2

string_delta(c, is_byte) ==
    LET delta == IF is_byte THEN 1 ELSE 2
    IN  IF BitAnd(c.flags, FLAGS_DF) # 0 THEN 0 - delta ELSE delta

(* the index registers after two elements *)
adjust_si_di_twice(c, is_byte) ==
    [c EXCEPT !.si = U16(@ + 2 * string_delta(c, is_byte)),
              !.di = U16(@ + 2 * string_delta(c, is_byte))]

adjust_si_di(c, is_byte) ==
    [c EXCEPT !.si = U16(@ + string_delta(c, is_byte)),
              !.di = U16(@ + string_delta(c, is_byte))]

string_src_addr(c) == Shl(c.ds, 4) + c.si

string_dst_addr(c) == Shl(c.es, 4) + c.di

mem_read(m, addr, is_byte) ==
    IF is_byte THEN cpu_read_byte(m, addr) ELSE cpu_read_word(m, addr)

mem_write(m, addr, is_byte, v) ==
    IF is_byte THEN cpu_write_byte(m, addr, v) ELSE cpu_write_word(m, addr, v)

movs_value(s, is_byte, value) ==
    add_ip([s EXCEPT !.ram = mem_write(@, string_dst_addr(s.cpu), is_byte, value),
                     !.cpu = adjust_si_di(@, is_byte)], 1)

movs_size(s, is_byte) ==
    movs_value(s, is_byte, mem_read(s.ram, string_src_addr(s.cpu), is_byte))

movs(s) == movs_size(s, opcode_at_pc(s) = 164)

(* CMPS computes dst - src, the byte at ES:DI minus the byte at DS:SI *)
cmps_operands(s, is_byte, src, dst) ==
    add_ip([s EXCEPT !.cpu = adjust_si_di(
                flags_sub(@, dst < src, src, src, dst,
                          IF is_byte THEN U8(dst - src) ELSE U16(dst - src),
                          is_byte),
                is_byte)], 1)

cmps_size(s, is_byte) ==
    cmps_operands(s, is_byte,
                  mem_read(s.ram, string_src_addr(s.cpu), is_byte),
                  mem_read(s.ram, string_dst_addr(s.cpu), is_byte))

cmps(s) == cmps_size(s, opcode_at_pc(s) = 166)

scas_operands(s, is_byte, dst, acc) ==
    add_ip([s EXCEPT !.cpu =
                [flags_sub(@, acc < dst, dst, dst, acc,
                           IF is_byte THEN U8(acc - dst) ELSE U16(acc - dst),
                           is_byte)
                   EXCEPT !.di = U16(@ + string_delta(s.cpu, is_byte))]], 1)

scas_size(s, is_byte) ==
    scas_operands(s, is_byte,
                  mem_read(s.ram, string_dst_addr(s.cpu), is_byte),
                  IF is_byte THEN Lo(s.cpu.ax) ELSE s.cpu.ax)

scas(s) == scas_size(s, opcode_at_pc(s) = 174)

lods_value(s, is_byte, value) ==
    add_ip([s EXCEPT !.cpu.ax = IF is_byte THEN WithLo(@, value) ELSE value,
                     !.cpu.si = U16(@ + string_delta(s.cpu, is_byte))], 1)

lods_size(s, is_byte) ==
    lods_value(s, is_byte, mem_read(s.ram, string_src_addr(s.cpu), is_byte))

lods(s) == lods_size(s, opcode_at_pc(s) = 172)

stos_size(s, is_byte) ==
    add_ip([s EXCEPT !.ram = mem_write(@, string_dst_addr(s.cpu), is_byte,
                                       IF is_byte THEN Lo(s.cpu.ax)
                                       ELSE s.cpu.ax),
                     !.cpu.di = U16(@ + string_delta(s.cpu, is_byte))], 1)

stos(s) == stos_size(s, opcode_at_pc(s) = 170)

(* ------------------------------------------------------------------ *)
(* opcode.h: Group 4/5 (0xFE, 0xFF)                                    *)
(* ------------------------------------------------------------------ *)
grp4_5_inc_flags(c, operand, result, is_byte) ==
    update_flags_szp(
        chk_aux_carry_add(chk_overflow_add(c, 1, operand, result, is_byte),
                          1, operand),
        result, is_byte)

grp4_5_dec_flags(c, operand, result, is_byte) ==
    update_flags_szp(
        chk_aux_carry_sub(chk_overflow_sub(c, 1, operand, result, is_byte),
                          1, operand),
        result, is_byte)

grp4_5_store(s, modrm, is_byte, result, c_flags) ==
    add_ip(rm_write([s EXCEPT !.cpu = c_flags], modrm, is_byte, result),
           1 + modrm.length)

grp4_5_inc_result(s, modrm, is_byte, operand, result) ==
    grp4_5_store(s, modrm, is_byte, result,
                 grp4_5_inc_flags(s.cpu, operand, result, is_byte))

grp4_5_dec_result(s, modrm, is_byte, operand, result) ==
    grp4_5_store(s, modrm, is_byte, result,
                 grp4_5_dec_flags(s.cpu, operand, result, is_byte))

grp4_5_inc_operand(s, modrm, is_byte, operand) ==
    grp4_5_inc_result(s, modrm, is_byte, operand,
                      IF is_byte THEN BitAnd(operand + 1, 255)
                      ELSE U16(operand + 1))

grp4_5_dec_operand(s, modrm, is_byte, operand) ==
    grp4_5_dec_result(s, modrm, is_byte, operand,
                      IF is_byte THEN BitAnd(U16(operand - 1), 255)
                      ELSE U16(operand - 1))

grp4_5_inc(s, modrm, is_byte) ==
    grp4_5_inc_operand(s, modrm, is_byte, rm_read(s, modrm, is_byte))

grp4_5_dec(s, modrm, is_byte) ==
    grp4_5_dec_operand(s, modrm, is_byte, rm_read(s, modrm, is_byte))

(* word is the r/m operand, offset:segment the far pointer at the      *)
(* effective address, next_ip the address of the next instruction      *)
grp4_5_transfer(s, modrm, is_byte, word, offset, segment, next_ip) ==
    CASE modrm.reg = 2 ->
           IF is_byte THEN halt(s)
           ELSE [push_word(s, next_ip) EXCEPT !.cpu.ip = word]
      [] modrm.reg = 3 ->
           IF is_byte \/ ~modrm.is_memory THEN halt(s)
           ELSE [push_word(push_word(s, s.cpu.cs), next_ip)
                    EXCEPT !.cpu.ip = offset, !.cpu.cs = segment]
      [] modrm.reg = 4 ->
           IF is_byte THEN halt(s) ELSE [s EXCEPT !.cpu.ip = word]
      [] modrm.reg = 5 ->
           IF is_byte \/ ~modrm.is_memory THEN halt(s)
           ELSE [s EXCEPT !.cpu.ip = offset, !.cpu.cs = segment]
      [] modrm.reg = 6 ->
           IF is_byte THEN halt(s)
           ELSE add_ip(push_word(s, word), 1 + modrm.length)
      [] OTHER -> halt(s)

grp4_5_decoded(s, modrm, is_byte) ==
    CASE modrm.reg = 0 -> grp4_5_inc(s, modrm, is_byte)
      [] modrm.reg = 1 -> grp4_5_dec(s, modrm, is_byte)
      [] OTHER ->
           grp4_5_transfer(s, modrm, is_byte, rm_read(s, modrm, FALSE),
                           cpu_read_word(s.ram, modrm.ea),
                           cpu_read_word(s.ram, modrm.ea + 2),
                           U16(s.cpu.ip + 1 + modrm.length))

grp4_5(s) == grp4_5_decoded(s, modrm_at(s), opcode_at_pc(s) = 254)

(* ------------------------------------------------------------------ *)
(* opcode.h: Group 1 immediate (0x80..0x83)                            *)
(* ------------------------------------------------------------------ *)
(* uint16_t result of operation reg, masked to a byte for byte forms *)
grp1_wide(reg, operand, imm, carry) ==
    CASE reg = 0 -> U16(operand + imm)
      [] reg = 1 -> BitOr(operand, imm)
      [] reg = 2 -> U16(operand + imm + carry)
      [] reg = 3 -> U16(operand - imm - carry)
      [] reg = 4 -> BitAnd(operand, imm)
      [] reg = 6 -> BitXor(operand, imm)
      [] OTHER -> U16(operand - imm)

grp1_result(reg, operand, imm, carry, is_byte) ==
    IF is_byte THEN BitAnd(grp1_wide(reg, operand, imm, carry), 255)
    ELSE grp1_wide(reg, operand, imm, carry)

(* imm_lo and op_lo are the uint8_t arguments of the AF checks *)
grp1_flags_lo(c, reg, operand, imm, carry, result, is_byte, imm_lo, op_lo) ==
    CASE reg = 0 ->
           update_flags_szp(
               chk_aux_carry_add(
                   chk_overflow_add(chk_carry_add(c, result, is_byte),
                                    imm, operand, result, is_byte),
                   imm_lo, op_lo),
               result, is_byte)
      [] reg = 1 \/ reg = 4 \/ reg = 6 ->
           update_flags_szp(clear_flag(clear_flag(c, FLAGS_CF), FLAGS_OV),
                            result, is_byte)
      [] reg = 2 ->
           update_flags_szp(
               chk_aux_carry_add(
                   chk_overflow_add(
                       chk_carry_add(c, operand + imm + carry, is_byte),
                       imm, operand, result, is_byte),
                   imm_lo + carry, op_lo),
               result, is_byte)
      [] reg = 3 ->
           flags_sub(c, operand < imm + carry \/ (operand = imm /\ carry # 0),
                     imm, imm_lo + carry, operand, result, is_byte)
      [] OTHER ->
           flags_sub(c, operand < imm, imm, imm_lo, operand, result, is_byte)

grp1_flags(c, reg, operand, imm, carry, result, is_byte) ==
    grp1_flags_lo(c, reg, operand, imm, carry, result, is_byte,
                  BitAnd(imm, 255), BitAnd(operand, 255))

grp1_store(s, modrm, is_byte, imm_size, s_flags, result) ==
    add_ip(IF modrm.reg = 7 THEN s_flags
           ELSE rm_write(s_flags, modrm, is_byte, result),
           1 + modrm.length + imm_size)

grp1_result_of(s, modrm, is_byte, imm_size, operand, imm, carry, result) ==
    grp1_store(s, modrm, is_byte, imm_size,
               [s EXCEPT !.cpu = grp1_flags(@, modrm.reg, operand, imm, carry,
                                            result, is_byte)],
               result)

grp1_operands(s, modrm, is_byte, imm_size, operand, imm, carry) ==
    grp1_result_of(s, modrm, is_byte, imm_size, operand, imm, carry,
                   grp1_result(modrm.reg, operand, imm, carry, is_byte))

grp1_decoded(s, modrm, is_byte, is_sign_extend) ==
    grp1_operands(s, modrm, is_byte,
                  IF is_byte \/ is_sign_extend THEN 1 ELSE 2,
                  rm_read(s, modrm, is_byte),
                  IF is_byte THEN imm8_at(s, 1 + modrm.length)
                  ELSE IF is_sign_extend
                  THEN U16(S8(imm8_at(s, 1 + modrm.length)))
                  ELSE imm16_at(s, 1 + modrm.length),
                  carry_in(s.cpu))

grp1_imm(s) ==
    grp1_decoded(s, modrm_at(s),
                 opcode_at_pc(s) = 128 \/ opcode_at_pc(s) = 130,
                 opcode_at_pc(s) = 131)

(* ------------------------------------------------------------------ *)
(* intel8086.c: do_op                                                  *)
(* ------------------------------------------------------------------ *)
(* the bytes the while loop of do_op consumes as prefixes *)
is_prefix(opcode) == opcode \in {38, 46, 54, 62, 242, 243}

(* one pass of the while loop on a prefix byte *)
prefix_step(c, opcode) ==
    LET c1 == CASE opcode = 38 -> [c EXCEPT !.seg_override = 1]
                [] opcode = 46 -> [c EXCEPT !.seg_override = 2]
                [] opcode = 54 -> [c EXCEPT !.seg_override = 3]
                [] opcode = 62 -> [c EXCEPT !.seg_override = 4]
                [] OTHER -> c
    IN  [c1 EXCEPT !.ip = U16(@ + 1)]

(* the case labels of the switch *)
case_labels ==
    (0 .. 37) \cup {39} \cup (40 .. 45) \cup {47} \cup (48 .. 53) \cup {55}
    \cup (56 .. 61) \cup {63} \cup (64 .. 154) \cup (156 .. 191)
    \cup (194 .. 213) \cup (224 .. 227) \cup (232 .. 235) \cup (244 .. 255)

cmc(s) ==
    add_ip([s EXCEPT !.cpu = put_flag(@, FLAGS_CF, ~FLAG_TST(@, FLAGS_CF))], 1)

clc(s) == add_ip([s EXCEPT !.cpu = clear_flag(@, FLAGS_CF)], 1)

stc(s) == add_ip([s EXCEPT !.cpu = set_flag(@, FLAGS_CF)], 1)

cli(s) == add_ip([s EXCEPT !.cpu = clear_flag(@, FLAGS_INT)], 1)

(* default: undef_op(cpu) only prints; cpu->running = 0 *)
undef_op(s) == s

(* a default branch that also steps over the byte, as hlt does *)
default_case_skip(s) == add_ip(halt(undef_op(s)), 1)

default_case(s) == halt(undef_op(s))

switch_low(s, opcode) ==
    CASE opcode <= 5 -> add_op(s)
      [] opcode \in {6, 14, 22, 30} -> push_seg(s)
      [] opcode \in {7, 15, 23, 31} -> pop_seg(s)
      [] opcode \in 8 .. 13 -> or_op(s)
      [] opcode \in 16 .. 21 -> adc_op(s)
      [] opcode \in 24 .. 29 -> sbb_op(s)
      [] opcode \in 32 .. 37 -> and_op(s)
      [] opcode = 39 -> daa(s)
      [] opcode \in 40 .. 45 -> sub_op(s)
      [] opcode = 47 -> das(s)
      [] opcode \in 48 .. 53 -> xor_op(s)
      [] opcode = 55 -> aaa(s)
      [] opcode \in 56 .. 61 -> cmp_op(s)
      [] opcode = 63 -> aas(s)
      [] opcode \in 64 .. 71 -> inc_reg16(s)
      [] opcode \in 72 .. 79 -> dec_reg16(s)
      [] opcode \in 80 .. 87 -> push_reg16(s)
      [] opcode \in 88 .. 95 -> pop_reg16(s)
      [] opcode \in 96 .. 127 -> jcc(s)

switch_mid(s, opcode) ==
    CASE opcode \in 128 .. 131 -> grp1_imm(s)
      [] opcode \in {132, 133, 168, 169} -> test_op(s)
      [] opcode \in {134, 135} -> xchg_modrm(s)
      [] opcode \in 136 .. 139 -> mov_modrm(s)
      [] opcode \in {140, 142} -> mov_seg(s)
      [] opcode = 141 -> lea(s)
      [] opcode = 143 -> pop_rm(s)
      [] opcode \in 144 .. 151 -> xchg_ax(s)
      [] opcode = 152 -> cbw(s)
      [] opcode = 153 -> cwd(s)
      [] opcode = 154 -> call_far(s)
      [] opcode = 156 -> pushf(s)
      [] opcode = 157 -> popf(s)
      [] opcode = 158 -> sahf(s)
      [] opcode = 159 -> lahf(s)
      [] opcode \in 160 .. 163 -> mov_mem(s)
      [] opcode \in {164, 165} -> movs(s)
      [] opcode \in {166, 167} -> cmps(s)
      [] opcode \in {170, 171} -> stos(s)
      [] opcode \in {172, 173} -> lods(s)
      [] opcode \in {174, 175} -> scas(s)
      [] opcode \in 176 .. 191 -> mov(s)

switch_high(s, opcode) ==
    CASE opcode = 194 -> ret_near_pop(s)
      [] opcode = 195 -> ret_near(s)
      [] opcode = 196 -> les(s)
      [] opcode = 197 -> lds(s)
      [] opcode \in {198, 199} -> mov_rm_imm(s)
      [] opcode \in {200, 202} -> ret_far_pop(s)
      [] opcode \in {201, 203} -> ret_far(s)
      [] opcode = 204 -> int3(s)
      [] opcode = 205 -> int_op(s)
      [] opcode = 206 -> into(s)
      [] opcode = 207 -> iret(s)
      [] opcode \in 208 .. 211 -> shift_rotate_op(s)
      [] opcode = 212 -> aam(s)
      [] opcode = 213 -> aad(s)
      [] opcode = 224 -> loopnz(s)
      [] opcode = 225 -> loopz(s)
      [] opcode = 226 -> loop_op(s)
      [] opcode = 227 -> jcxz(s)
      [] opcode = 232 -> call_near(s)
      [] opcode = 233 -> jmp_near(s)
      [] opcode = 234 -> jmpf(s)
      [] opcode = 235 -> jmp_short(s)
      [] opcode = 244 -> hlt(s)
      [] opcode = 245 -> cmc(s)
      [] opcode \in {246, 247} -> grp3(s)
      [] opcode = 248 -> clc(s)
      [] opcode = 249 -> stc(s)
      [] opcode = 250 -> cli(s)
      [] opcode = 251 -> sti(s)
      [] opcode = 252 -> cld(s)
      [] opcode = 253 -> std(s)
      [] opcode \in {254, 255} -> grp4_5(s)

(* switch (opcode) *)
do_op_switch(s) ==
    LET opcode == opcode_at_pc(s)
    IN  IF opcode \notin case_labels THEN default_case(s)
        ELSE IF opcode < 128 THEN switch_low(s, opcode)
        ELSE IF opcode < 192 THEN switch_mid(s, opcode)
        ELSE switch_high(s, opcode)

(* do_op without the clearing of the override *)
clear_override_missing(s) == s

(* cpu->seg_override = 0 after the switch *)
clear_override(s) == [s EXCEPT !.cpu.seg_override = 0]

(* the value of return 0 *)
do_op_return == 0

(* the end of do_op: a call the process died in clears nothing *)
do_op_finish(s1) == IF s1.fault # "none" THEN s1 ELSE clear_override(s1)

(* everything do_op does once the prefix loop has ended *)
do_op_tail(s) == do_op_finish(do_op_switch(s))

(* ------------------------------------------------------------------ *)
(* json_test_runner.c: loading a fixture                               *)
(* ------------------------------------------------------------------ *)
set_cpu_regs(c, regs) ==
    [c EXCEPT !.ax = regs.ax, !.bx = regs.bx, !.cx = regs.cx, !.dx = regs.dx,
              !.cs = regs.cs, !.ss = regs.ss, !.ds = regs.ds, !.es = regs.es,
              !.sp = regs.sp, !.bp = regs.bp, !.si = regs.si, !.di = regs.di,
              !.ip = regs.ip, !.flags = regs.flags]

RECURSIVE set_cpu_ram(_, _)
set_cpu_ram(m, pairs) ==
    IF pairs = <<>> THEN m
    ELSE set_cpu_ram(cpu_write_byte(m, Head(pairs)[1], Head(pairs)[2]), Tail(pairs))

(* ------------------------------------------------------------------ *)
(* Inputs: register files and programs of the fixtures                 *)
(* ------------------------------------------------------------------ *)
MaxSteps == 2

(* the passes of the prefix loop of one do_op call are counted up to   *)
(* this number; the loop itself goes on                                *)
MaxPrefixCount == 3

(* the [address, value] pairs that put bytes at at, at + 1, ... *)
Bytes(at, bytes) == [i \in 1 .. Len(bytes) |-> <<at + i - 1, bytes[i]>>]

BaseRegs ==
    [ax |-> 4660, bx |-> 256, cx |-> 2, dx |-> 0,
     cs |-> 4096, ss |-> 8192, ds |-> 12288, es |-> 16384,
     sp |-> 256, bp |-> 512, si |-> 16, di |-> 32,
     ip |-> 256, flags |-> 2]

RegFiles ==
    { BaseRegs,
      \* the stack word at SS:SP-2 is the last byte of memory
      [BaseRegs EXCEPT !.ss = 65535, !.sp = 17],
      \* AL = 0, BX = 0xFFFF, DX:AX = 0x8000:0000, CF and DF set
      [BaseRegs EXCEPT !.ax = 0, !.bx = 65535, !.dx = 32768, !.flags = 1027],
      \* a small dividend and a large one
      [BaseRegs EXCEPT !.ax = 65280, !.bx = 2, !.dx = 1, !.cx = 513,
                       !.flags = 2263] }

(* data the programs read: bytes at DS:0100 (BX), DS:0010 (SI), ES:0020 (DI), *)
(* and other bytes at the same offsets 0100 and 0010 of ES                   *)
DataImage ==
    Bytes(12288 * 16 + 256, <<52, 18, 120, 86>>)
    \o Bytes(12288 * 16 + 16, <<0, 0, 255, 127>>)
    \o Bytes(16384 * 16 + 32, <<1, 128>>)
    \o Bytes(16384 * 16 + 256, <<205, 171>>)
    \o Bytes(16384 * 16 + 16, <<170, 85>>)

(* the programs, as the bytes placed at CS:IP *)
Programs ==
    {
      <<144, 244>>,                 \* NOP; HLT
      <<80, 88>>,                   \* PUSH AX; POP AX
      <<83, 91>>,                   \* PUSH BX; POP BX
      <<84, 92>>,                   \* PUSH SP; POP SP
      <<82, 95>>,                   \* PUSH DX; POP DI
      <<141, 7>>,                   \* LEA AX,[BX]
      <<141, 71, 2>>,               \* LEA AX,[BX+2]
      <<141, 192>>,                 \* LEA AX,AX
      <<197, 7>>,                   \* LDS AX,[BX]
      <<196, 7>>,                   \* LES AX,[BX]
      <<140, 216>>,                 \* MOV AX,DS
      <<142, 192>>,                 \* MOV ES,AX
      <<140, 7>>,                   \* MOV [BX],ES
      <<142, 224>>,                 \* MOV Sreg 4,AX
      <<136, 7>>,                   \* MOV [BX],AL
      <<137, 195>>,                 \* MOV BX,AX
      <<138, 7>>,                   \* MOV AL,[BX]
      <<139, 71, 2>>,               \* MOV AX,[BX+2]
      <<139, 6, 0, 1>>,             \* MOV AX,[0100]
      <<38, 139, 7>>,               \* ES: MOV AX,[BX]
      <<46, 144>>,                  \* CS: NOP
      <<54, 244>>,                  \* SS: HLT
      <<243, 164>>,                 \* REP MOVSB
      <<242, 174>>,                 \* REPNE SCASB
      <<38, 62, 161, 0, 1>>,        \* ES: DS: MOV AX,[0100]
      <<38, 160, 0, 1>>,            \* ES: MOV AL,[0100]
      <<38, 161, 0, 1>>,            \* ES: MOV AX,[0100]
      <<46, 162, 0, 1>>,            \* CS: MOV [0100],AL
      <<38, 163, 0, 1>>,            \* ES: MOV [0100],AX
      <<38, 164>>,                  \* ES: MOVSB
      <<38, 165>>,                  \* ES: MOVSW
      <<38, 167>>,                  \* ES: CMPSW
      <<38, 172>>,                  \* ES: LODSB
      <<38, 173>>,                  \* ES: LODSW
      <<46, 171>>,                  \* CS: STOSW
      <<54, 139, 71, 2>>,           \* SS: MOV AX,[BX+2]
      <<155>>,                      \* WAIT
      <<192>>,                      \* 0xC0
      <<241>>,                      \* 0xF1
      <<38, 155>>,                  \* ES: 0x9B
      <<214>>,                      \* SALC
      <<215>>,                      \* XLAT
      <<216, 7>>,                   \* ESC [BX]
      <<223, 192>>,                 \* ESC reg
      <<228, 16>>,                  \* IN AL,10
      <<229, 16>>,                  \* IN AX,10
      <<230, 16>>,                  \* OUT 10,AL
      <<231, 16>>,                  \* OUT 10,AX
      <<236>>,                      \* IN AL,DX
      <<237>>,                      \* IN AX,DX
      <<238>>,                      \* OUT DX,AL
      <<239>>,                      \* OUT DX,AX
      <<246, 240>>,                 \* DIV AL
      <<246, 243>>,                 \* DIV BL
      <<247, 243>>,                 \* DIV BX
      <<246, 251>>,                 \* IDIV BL
      <<247, 251>>,                 \* IDIV BX
      <<247, 249>>,                 \* IDIV CX
      <<246, 55>>,                  \* DIV byte [BX]
      <<38, 246, 240>>,             \* ES: DIV AL
      <<38, 247, 55>>,              \* ES: DIV word [BX]
      <<212, 0>>,                   \* AAM 0
      <<212, 10>>,                  \* AAM 10
      <<54, 212, 0>>,               \* SS: AAM 0
      <<213, 10>>,                  \* AAD
      <<0, 7>>,                     \* ADD [BX],AL
      <<3, 195>>,                   \* ADD AX,BX
      <<4, 255>>,                   \* ADD AL,FF
      <<5, 255, 255>>,              \* ADD AX,FFFF
      <<11, 7>>,                    \* OR AX,[BX]
      <<12, 128>>,                  \* OR AL,80
      <<17, 7>>,                    \* ADC [BX],AX
      <<20, 1>>,                    \* ADC AL,1
      <<27, 195>>,                  \* SBB AX,BX
      <<28, 1>>,                    \* SBB AL,1
      <<33, 195>>,                  \* AND BX,AX
      <<37, 15, 15>>,               \* AND AX,0F0F
      <<41, 7>>,                    \* SUB [BX],AX
      <<44, 53>>,                   \* SUB AL,35
      <<45, 52, 18>>,               \* SUB AX,1234
      <<50, 196>>,                  \* XOR AL,AH
      <<53, 255, 255>>,             \* XOR AX,FFFF
      <<57, 195>>,                  \* CMP BX,AX
      <<60, 52>>,                   \* CMP AL,34
      <<39>>,                       \* DAA
      <<47>>,                       \* DAS
      <<55>>,                       \* AAA
      <<63>>,                       \* AAS
      <<64>>,                       \* INC AX
      <<75>>,                       \* DEC BX
      <<6, 7>>,                     \* PUSH ES; POP ES
      <<14, 31>>,                   \* PUSH CS; POP DS
      <<128, 195, 1>>,              \* ADD BL,1
      <<129, 195, 255, 255>>,       \* ADD BX,FFFF
      <<131, 232, 1>>,              \* SUB AX,1
      <<128, 63, 0>>,               \* CMP byte [BX],0
      <<132, 195>>,                 \* TEST BL,AL
      <<134, 195>>,                 \* XCHG AL,BL
      <<135, 7>>,                   \* XCHG [BX],AX
      <<143, 7>>,                   \* POP [BX]
      <<145>>,                      \* XCHG CX,AX
      <<152>>,                      \* CBW
      <<153>>,                      \* CWD
      <<156, 157>>,                 \* PUSHF; POPF
      <<158>>,                      \* SAHF
      <<159>>,                      \* LAHF
      <<160, 0, 1>>,                \* MOV AL,[0100]
      <<163, 0, 1>>,                \* MOV [0100],AX
      <<164>>,                      \* MOVSB
      <<165>>,                      \* MOVSW
      <<166>>,                      \* CMPSB
      <<167>>,                      \* CMPSW
      <<168, 1>>,                   \* TEST AL,1
      <<169, 1, 0>>,                \* TEST AX,1
      <<170>>,                      \* STOSB
      <<171>>,                      \* STOSW
      <<172>>,                      \* LODSB
      <<173>>,                      \* LODSW
      <<174>>,                      \* SCASB
      <<175>>,                      \* SCASW
      <<176, 18>>,                  \* MOV AL,12
      <<188, 0, 2>>,                \* MOV SP,0200
      <<198, 7, 18>>,               \* MOV byte [BX],12
      <<199, 7, 52, 18>>,           \* MOV word [BX],1234
      <<208, 224>>,                 \* SHL AL,1
      <<209, 232>>,                 \* SHR AX,1
      <<210, 192>>,                 \* ROL AL,CL
      <<211, 248>>,                 \* SAR AX,CL
      <<208, 208>>,                 \* RCL AL,1
      <<209, 216>>,                 \* RCR AX,1
      <<208, 200>>,                 \* ROR AL,1
      <<116, 2>>,                   \* JZ +2
      <<117, 2>>,                   \* JNZ +2
      <<235, 254>>,                 \* JMP short -2
      <<233, 0, 1>>,                \* JMP near
      <<232, 16, 0>>,               \* CALL near
      <<195>>,                      \* RET
      <<194, 2, 0>>,                \* RET 2
      <<203>>,                      \* RETF
      <<202, 2, 0>>,                \* RETF 2
      <<154, 0, 1, 0, 32>>,         \* CALL far
      <<234, 0, 2, 0, 16>>,         \* JMP far
      <<204>>,                      \* INT3
      <<205, 33>>,                  \* INT 21
      <<206>>,                      \* INTO
      <<207>>,                      \* IRET
      <<224, 2>>,                   \* LOOPNZ
      <<225, 2>>,                   \* LOOPZ
      <<226, 254>>,                 \* LOOP
      <<227, 2>>,                   \* JCXZ
      <<245>>,                      \* CMC
      <<248, 249>>,                 \* CLC; STC
      <<250, 251>>,                 \* CLI; STI
      <<252, 253>>,                 \* CLD; STD
      <<246, 195, 1>>,              \* TEST BL,1
      <<247, 208>>,                 \* NOT AX
      <<247, 216>>,                 \* NEG AX
      <<246, 227>>,                 \* MUL BL
      <<247, 227>>,                 \* MUL BX
      <<246, 235>>,                 \* IMUL BL
      <<247, 235>>,                 \* IMUL BX
      <<246, 200>>,                 \* Grp3 /1
      <<254, 192>>,                 \* INC AL
      <<255, 7>>,                   \* INC word [BX]
      <<254, 15>>,                  \* DEC byte [BX]
      <<255, 211>>,                 \* CALL BX
      <<255, 31>>,                  \* CALL far [BX]
      <<255, 227>>,                 \* JMP BX
      <<255, 47>>,                  \* JMP far [BX]
      <<255, 55>>,                  \* PUSH word [BX]
      <<255, 248>>,                 \* Grp5 /7
      <<254, 208>>                  \* Grp4 /2
    }

(* a fixture: initial registers, initial RAM as [address, value] pairs *)
Fixture(regs, prog) ==
    [regs |-> regs,
     ram |-> DataImage \o Bytes(cpu_calc_addr(regs.cs, regs.ip), prog)]

(* an X86Cpu as malloc returns it, before init_8086: any contents *)
RawCpus ==
    { [ZeroCpu EXCEPT !.ax = 52428, !.sp = 1, !.flags = 65535,
                      !.seg_override = 3, !.rep_prefix = 1, !.running = 0],
      [ZeroCpu EXCEPT !.ip = 7, !.cs = 52428, !.ds = 9, !.cycles = 5,
                      !.seg_override = 1, !.running = 1] }

NoCall == [fn |-> "none"]

(* ------------------------------------------------------------------ *)
(* The emulator as a state machine                                     *)
(*   phase "raw"    the X86Cpu is allocated, init_8086 has not run     *)
(*         "reset"  init_8086 has returned                             *)
(*         "idle"   between two do_op calls                            *)
(*         "prefix" inside do_op, in the prefix loop                   *)
(*         "killed" the process died inside do_op                      *)
(*   hist  one record per do_op call that returned                     *)
(*   call  the call in progress or the last call made                  *)
(* ------------------------------------------------------------------ *)
Init ==
    /\ cpu \in RawCpus
    /\ ram = ZeroRam
    /\ phase = "raw"
    /\ hist = <<>>
    /\ steps = 0
    /\ call = NoCall

(* init_8086, at start-up and before every further test case *)
Init8086 ==
    /\ phase = "raw" \/ (phase = "idle" /\ hist # <<>>)
    /\ cpu' = init_8086(cpu).cpu
    /\ ram' = init_8086(cpu).ram
    /\ phase' = "reset"
    /\ hist' = <<>>
    /\ steps' = 0
    /\ call' = [fn |-> "init_8086", dirty |-> cpu # ZeroCpu \/ ram # ZeroRam]

(* run_test_case: set_cpu_regs, then set_cpu_ram *)
LoadFixture ==
    /\ phase = "reset"
    /\ \E regs \in RegFiles, prog \in Programs :
          LET F == Fixture(regs, prog)
          IN  /\ cpu' = set_cpu_regs(cpu, F.regs)
              /\ ram' = set_cpu_ram(ram, F.ram)
    /\ phase' = "idle"
    /\ call' = [fn |-> "set_cpu"]
    /\ UNCHANGED <<hist, steps>>

(* do_op is entered while the CPU runs (main_loop) *)
InDoOp ==
    /\ phase \in {"idle", "prefix"}
    /\ cpu.running = 1
    /\ steps < MaxSteps

entry_state == IF phase = "prefix" THEN call.entry ELSE [cpu |-> cpu, ram |-> ram]

prefix_count == IF phase = "prefix" THEN call.npfx ELSE 0

(* do_op: one pass of the while loop that finds a prefix byte *)
DoOpPrefix ==
    /\ InDoOp
    /\ is_prefix(cpu_read_byte(ram, cpu_get_pc(cpu)))
    /\ cpu' = prefix_step(cpu, cpu_read_byte(ram, cpu_get_pc(cpu)))
    /\ phase' = "prefix"
    /\ call' = [fn |-> "do_op", entry |-> entry_state,
                npfx |-> IF prefix_count < MaxPrefixCount
                         THEN prefix_count + 1 ELSE prefix_count]
    /\ UNCHANGED <<ram, hist, steps>>

(* do_op returns, or the process dies in it; s is the state the call  *)
(* ends in                                                            *)
DoOpReturn(s) ==
    IF s.fault # "none"
    THEN /\ phase' = "killed"
         /\ call' = [fn |-> "do_op", entry |-> entry_state,
                     npfx |-> prefix_count, fault |-> s.fault]
         /\ UNCHANGED <<cpu, ram, hist, steps>>
    ELSE /\ cpu' = s.cpu
         /\ ram' = s.ram
         /\ phase' = "idle"
         /\ hist' = Append(hist, [entry |-> entry_state, npfx |-> prefix_count,
                                  at |-> cpu,
                                  exit |-> [cpu |-> s.cpu, ram |-> s.ram],
                                  ret |-> do_op_return])
         /\ steps' = steps + 1
         /\ call' = [fn |-> "do_op", ret |-> do_op_return]

(* do_op: the pass that finds no prefix, the switch, the clearing of   *)
(* the override and the return                                         *)
DoOpExec ==
    /\ InDoOp
    /\ ~is_prefix(cpu_read_byte(ram, cpu_get_pc(cpu)))
    /\ \E ub \in {"wrap", "trap"} :
          DoOpReturn(do_op_tail([cpu |-> cpu, ram |-> ram, ub |-> ub,
                                 fault |-> "none"]))

Next == Init8086 \/ LoadFixture \/ DoOpPrefix \/ DoOpExec

Spec == Init /\ [][Next]_vars

(* ------------------------------------------------------------------ *)
(* cpu_calc_addr on its own: the arguments are drawn, then the call    *)
(* is made                                                             *)
(* ------------------------------------------------------------------ *)
AddrSegments ==
    {0, 1, 15, 16, 255, 4096, 8192, 32768, 61440, 65280, 65534, 65535}

AddrOffsets ==
    {0, 1, 15, 16, 17, 255, 256, 32768, 65520, 65534, 65535}

InitAddr ==
    /\ cpu = ZeroCpu
    /\ ram = ZeroRam
    /\ phase = "args"
    /\ hist = <<>>
    /\ steps = 0
    /\ call \in [fn : {"none"}, segment : AddrSegments, offset : AddrOffsets]

CalcAddr ==
    /\ phase = "args"
    /\ phase' = "returned"
    /\ call' = [fn |-> "cpu_calc_addr", segment |-> call.segment,
                offset |-> call.offset,
                ret |-> cpu_calc_addr(call.segment, call.offset)]
    /\ UNCHANGED <<cpu, ram, hist, steps>>

NextAddr == CalcAddr

SpecAddr == InitAddr /\ [][NextAddr]_vars

(* ------------------------------------------------------------------ *)
(* The word accessors on their own, on RAM images with bytes at both   *)
(* ends of the address space                                           *)
(* ------------------------------------------------------------------ *)
MemAddrs == {0, 1, 1048574, 1048575}

MemValues == {0, 255, 4660, 43981}

MemImages ==
    { ZeroRam,
      set_cpu_ram(ZeroRam, <<<<0, 17>>, <<1, 34>>, <<1048574, 51>>,
                             <<1048575, 68>>>>) }

InitMem ==
    /\ cpu = ZeroCpu
    /\ ram \in MemImages
    /\ phase = "mem"
    /\ hist = <<>>
    /\ steps = 0
    /\ call = NoCall

ReadWord ==
    /\ steps < MaxSteps
    /\ \E addr \in MemAddrs :
          call' = [fn |-> "cpu_read_word", addr |-> addr, before |-> ram,
                   ret |-> cpu_read_word(ram, addr)]
    /\ steps' = steps + 1
    /\ UNCHANGED <<cpu, ram, phase, hist>>

WriteWord ==
    /\ steps < MaxSteps
    /\ \E addr \in MemAddrs, value \in MemValues :
          /\ ram' = cpu_write_word(ram, addr, value)
          /\ call' = [fn |-> "cpu_write_word", addr |-> addr, value |-> value,
                      before |-> ram]
    /\ steps' = steps + 1
    /\ UNCHANGED <<cpu, phase, hist>>

NextMem == ReadWord \/ WriteWord

SpecMem == InitMem /\ [][NextMem]_vars

(* ------------------------------------------------------------------ *)
(* decode_modrm on its own: a ModR/M byte and two displacement bytes   *)
(* are drawn and placed at DS:0100, the registers are drawn, then the  *)
(* call is made                                                        *)
(* ------------------------------------------------------------------ *)
ModRMBytes == 0 .. 255

ModRMDisplacements == {<<2, 0>>, <<0, 1>>, <<128, 0>>, <<254, 255>>}

(* base and index registers whose sums stay below 2^16, and pass it *)
ModRMRegFiles ==
    { BaseRegs,
      [BaseRegs EXCEPT !.bx = 65535, !.bp = 65520, !.si = 32, !.di = 47] }

InitModRM ==
    /\ \E byte \in ModRMBytes, disp \in ModRMDisplacements,
          regs \in ModRMRegFiles :
           /\ cpu = set_cpu_regs(init_8086(ZeroCpu).cpu, regs)
           /\ ram = set_cpu_ram(init_8086(ZeroCpu).ram,
                                Bytes(cpu_calc_addr(regs.ds, 256),
                                      <<byte>> \o disp))
    /\ phase = "args"
    /\ hist = <<>>
    /\ steps = 0
    /\ call = [fn |-> "none", addr |-> cpu_calc_addr(BaseRegs.ds, 256)]

DecodeModRM ==
    /\ phase = "args"
    /\ phase' = "returned"
    /\ call' = [fn |-> "decode_modrm", addr |-> call.addr,
                ret |-> decode_modrm(cpu, ram, call.addr)]
    /\ UNCHANGED <<cpu, ram, hist, steps>>

NextModRM == DecodeModRM

SpecModRM == InitModRM /\ [][NextModRM]_vars

(* ------------------------------------------------------------------ *)
(* One instruction on drawn operands. The fixture puts operand a in AX, *)
(* operand b in BX, in the word at DS:0100 and in the immediate bytes  *)
(* of the instruction, and the instruction twice at CS:IP; do_op is    *)
(* then called as main_loop calls it                                   *)
(* ------------------------------------------------------------------ *)
OperandValues ==
    {0, 1, 15, 16, 127, 128, 255, 256, 4660, 32767, 32768, 65535}

(* FLAGS with no status flag set, and with CF PF AF ZF SF OF all set *)
OperandFlags == {2, 2263}

(* the bytes of an encoding: its code, then 0, 1 or 2 immediate bytes *)
InstructionBytes(enc, b) ==
    enc.code \o (IF enc.imm = 0 THEN <<>>
                 ELSE IF enc.imm = 1 THEN <<Lo(b)>>
                 ELSE <<Lo(b), Hi(b)>>)

OperandFixture(enc, a, b, f) ==
    [regs |-> [BaseRegs EXCEPT !.ax = a, !.bx = b, !.flags = f],
     ram |-> Bytes(cpu_calc_addr(BaseRegs.ds, 256), <<Lo(b), Hi(b)>>)
             \o Bytes(cpu_calc_addr(BaseRegs.cs, BaseRegs.ip),
                      InstructionBytes(enc, b) \o InstructionBytes(enc, b))]

(* run_test_case has reset the CPU and loaded the fixture F *)
FixtureLoaded(F) ==
    /\ cpu = set_cpu_regs(init_8086(ZeroCpu).cpu, F.regs)
    /\ ram = set_cpu_ram(init_8086(ZeroCpu).ram, F.ram)
    /\ phase = "idle"
    /\ hist = <<>>
    /\ steps = 0
    /\ call = [fn |-> "set_cpu"]

InitOperands(encodings) ==
    \E enc \in encodings, a \in OperandValues, b \in OperandValues,
       f \in OperandFlags :
        FixtureLoaded(OperandFixture(enc, a, b, f))

NextOperands == DoOpExec

(* ADD in its six opcodes, register and memory forms *)
AddEncodings ==
    { [code |-> <<0, 6, 0, 1>>, imm |-> 0],    \* ADD [0100],AL
      [code |-> <<0, 216>>, imm |-> 0],        \* ADD AL,BL
      [code |-> <<1, 6, 0, 1>>, imm |-> 0],    \* ADD [0100],AX
      [code |-> <<1, 216>>, imm |-> 0],        \* ADD AX,BX
      [code |-> <<2, 6, 0, 1>>, imm |-> 0],    \* ADD AL,[0100]
      [code |-> <<2, 227>>, imm |-> 0],        \* ADD AH,BL
      [code |-> <<3, 6, 0, 1>>, imm |-> 0],    \* ADD AX,[0100]
      [code |-> <<3, 195>>, imm |-> 0],        \* ADD AX,BX
      [code |-> <<4>>, imm |-> 1],             \* ADD AL,imm8
      [code |-> <<5>>, imm |-> 2] }            \* ADD AX,imm16

InitAdd == InitOperands(AddEncodings)

SpecAdd == InitAdd /\ [][NextOperands]_vars

(* SUB and CMP in their six opcodes each, register and memory forms *)
SubEncodings ==
    { [code |-> <<40, 6, 0, 1>>, imm |-> 0],   \* SUB [0100],AL
      [code |-> <<40, 216>>, imm |-> 0],       \* SUB AL,BL
      [code |-> <<41, 6, 0, 1>>, imm |-> 0],   \* SUB [0100],AX
      [code |-> <<41, 216>>, imm |-> 0],       \* SUB AX,BX
      [code |-> <<42, 6, 0, 1>>, imm |-> 0],   \* SUB AL,[0100]
      [code |-> <<42, 227>>, imm |-> 0],       \* SUB AH,BL
      [code |-> <<43, 6, 0, 1>>, imm |-> 0],   \* SUB AX,[0100]
      [code |-> <<43, 195>>, imm |-> 0],       \* SUB AX,BX
      [code |-> <<44>>, imm |-> 1],            \* SUB AL,imm8
      [code |-> <<45>>, imm |-> 2],            \* SUB AX,imm16
      [code |-> <<56, 6, 0, 1>>, imm |-> 0],   \* CMP [0100],AL
      [code |-> <<56, 216>>, imm |-> 0],       \* CMP AL,BL
      [code |-> <<57, 6, 0, 1>>, imm |-> 0],   \* CMP [0100],AX
      [code |-> <<57, 216>>, imm |-> 0],       \* CMP AX,BX
      [code |-> <<58, 6, 0, 1>>, imm |-> 0],   \* CMP AL,[0100]
      [code |-> <<58, 227>>, imm |-> 0],       \* CMP AH,BL
      [code |-> <<59, 6, 0, 1>>, imm |-> 0],   \* CMP AX,[0100]
      [code |-> <<59, 195>>, imm |-> 0],       \* CMP AX,BX
      [code |-> <<60>>, imm |-> 1],            \* CMP AL,imm8
      [code |-> <<61>>, imm |-> 2] }           \* CMP AX,imm16

InitSub == InitOperands(SubEncodings)

SpecSub == InitSub /\ [][NextOperands]_vars

(* AND, OR, XOR and TEST in every encoding *)
LogicEncodings ==
    { [code |-> <<8, 216>>, imm |-> 0],              \* OR AL,BL
      [code |-> <<9, 6, 0, 1>>, imm |-> 0],          \* OR [0100],AX
      [code |-> <<10, 6, 0, 1>>, imm |-> 0],         \* OR AL,[0100]
      [code |-> <<11, 195>>, imm |-> 0],             \* OR AX,BX
      [code |-> <<12>>, imm |-> 1],                  \* OR AL,imm8
      [code |-> <<13>>, imm |-> 2],                  \* OR AX,imm16
      [code |-> <<32, 216>>, imm |-> 0],             \* AND AL,BL
      [code |-> <<33, 6, 0, 1>>, imm |-> 0],         \* AND [0100],AX
      [code |-> <<34, 6, 0, 1>>, imm |-> 0],         \* AND AL,[0100]
      [code |-> <<35, 195>>, imm |-> 0],             \* AND AX,BX
      [code |-> <<36>>, imm |-> 1],                  \* AND AL,imm8
      [code |-> <<37>>, imm |-> 2],                  \* AND AX,imm16
      [code |-> <<48, 216>>, imm |-> 0],             \* XOR AL,BL
      [code |-> <<49, 6, 0, 1>>, imm |-> 0],         \* XOR [0100],AX
      [code |-> <<50, 6, 0, 1>>, imm |-> 0],         \* XOR AL,[0100]
      [code |-> <<51, 195>>, imm |-> 0],             \* XOR AX,BX
      [code |-> <<52>>, imm |-> 1],                  \* XOR AL,imm8
      [code |-> <<53>>, imm |-> 2],                  \* XOR AX,imm16
      [code |-> <<132, 216>>, imm |-> 0],            \* TEST AL,BL
      [code |-> <<133, 6, 0, 1>>, imm |-> 0],        \* TEST [0100],AX
      [code |-> <<168>>, imm |-> 1],                 \* TEST AL,imm8
      [code |-> <<169>>, imm |-> 2],                 \* TEST AX,imm16
      [code |-> <<128, 200>>, imm |-> 1],            \* OR AL,imm8
      [code |-> <<129, 200>>, imm |-> 2],            \* OR AX,imm16
      [code |-> <<131, 200>>, imm |-> 1],            \* OR AX,imm8 sign-extended
      [code |-> <<128, 38, 0, 1>>, imm |-> 1],       \* AND byte [0100],imm8
      [code |-> <<129, 224>>, imm |-> 2],            \* AND AX,imm16
      [code |-> <<130, 224>>, imm |-> 1],            \* AND AL,imm8 (0x82)
      [code |-> <<128, 240>>, imm |-> 1],            \* XOR AL,imm8
      [code |-> <<129, 54, 0, 1>>, imm |-> 2],       \* XOR word [0100],imm16
      [code |-> <<131, 240>>, imm |-> 1],            \* XOR AX,imm8 sign-extended
      [code |-> <<246, 192>>, imm |-> 1],            \* TEST AL,imm8 (Grp3)
      [code |-> <<247, 6, 0, 1>>, imm |-> 2] }       \* TEST word [0100],imm16 (Grp3)

InitLogic == InitOperands(LogicEncodings)

SpecLogic == InitLogic /\ [][NextOperands]_vars

(* INC and DEC: the register short forms and the Grp4/5 r/m forms *)
IncDecEncodings ==
    { [code |-> <<64>>, imm |-> 0],                  \* INC AX
      [code |-> <<65>>, imm |-> 0],                  \* INC CX
      [code |-> <<66>>, imm |-> 0],                  \* INC DX
      [code |-> <<67>>, imm |-> 0],                  \* INC BX
      [code |-> <<68>>, imm |-> 0],                  \* INC SP
      [code |-> <<69>>, imm |-> 0],                  \* INC BP
      [code |-> <<70>>, imm |-> 0],                  \* INC SI
      [code |-> <<71>>, imm |-> 0],                  \* INC DI
      [code |-> <<72>>, imm |-> 0],                  \* DEC AX
      [code |-> <<73>>, imm |-> 0],                  \* DEC CX
      [code |-> <<74>>, imm |-> 0],                  \* DEC DX
      [code |-> <<75>>, imm |-> 0],                  \* DEC BX
      [code |-> <<76>>, imm |-> 0],                  \* DEC SP
      [code |-> <<77>>, imm |-> 0],                  \* DEC BP
      [code |-> <<78>>, imm |-> 0],                  \* DEC SI
      [code |-> <<79>>, imm |-> 0],                  \* DEC DI
      [code |-> <<254, 192>>, imm |-> 0],            \* INC AL
      [code |-> <<254, 200>>, imm |-> 0],            \* DEC AL
      [code |-> <<254, 6, 0, 1>>, imm |-> 0],        \* INC byte [0100]
      [code |-> <<254, 14, 0, 1>>, imm |-> 0],       \* DEC byte [0100]
      [code |-> <<255, 192>>, imm |-> 0],            \* INC AX
      [code |-> <<255, 203>>, imm |-> 0],            \* DEC BX
      [code |-> <<255, 6, 0, 1>>, imm |-> 0],        \* INC word [0100]
      [code |-> <<255, 14, 0, 1>>, imm |-> 0] }      \* DEC word [0100]

InitIncDec == InitOperands(IncDecEncodings)

SpecIncDec == InitIncDec /\ [][NextOperands]_vars

(* NEG on byte and word registers and on memory *)
NegEncodings ==
    { [code |-> <<246, 216>>, imm |-> 0],      \* NEG AL
      [code |-> <<246, 219>>, imm |-> 0],      \* NEG BL
      [code |-> <<246, 30, 0, 1>>, imm |-> 0], \* NEG byte [0100]
      [code |-> <<247, 216>>, imm |-> 0],      \* NEG AX
      [code |-> <<247, 219>>, imm |-> 0],      \* NEG BX
      [code |-> <<247, 30, 0, 1>>, imm |-> 0] } \* NEG word [0100]

InitNeg == InitOperands(NegEncodings)

SpecNeg == InitNeg /\ [][NextOperands]_vars

(* ------------------------------------------------------------------ *)
(* One conditional jump: opcode, rel8, FLAGS and IP are drawn, the     *)
(* two bytes are written at CS:IP and do_op is called                  *)
(* ------------------------------------------------------------------ *)
JccOpcodes == 112 .. 127

JccDisplacements == {0, 5, 127, 128, 254}

JccIps == {2, 256, 65534}

(* every combination of CF, PF, ZF, SF and OF, with bit 1 set *)
JccFlags ==
    { 2 + cf + 4 * pf + 64 * zf + 128 * sf + 2048 * ovf :
        cf \in 0 .. 1, pf \in 0 .. 1, zf \in 0 .. 1, sf \in 0 .. 1,
        ovf \in 0 .. 1 }

JccFixture(opcode, rel8, f, ip) ==
    [regs |-> [BaseRegs EXCEPT !.ip = ip, !.flags = f],
     ram |-> Bytes(cpu_calc_addr(BaseRegs.cs, ip), <<opcode, rel8>>)]

InitJcc ==
    \E opcode \in JccOpcodes, rel8 \in JccDisplacements, f \in JccFlags,
       ip \in JccIps :
        FixtureLoaded(JccFixture(opcode, rel8, f, ip))

SpecJcc == InitJcc /\ [][NextOperands]_vars

(* ------------------------------------------------------------------ *)
(* One LEA: ModR/M byte, displacement, segment registers and an        *)
(* optional ES: prefix are drawn, the bytes are written at CS:IP and   *)
(* do_op is called                                                     *)
(* ------------------------------------------------------------------ *)
LeaModRMs == 0 .. 191

LeaDisplacements == {<<2, 0>>, <<254, 255>>}

(* segment registers that are multiples of 0x1000, and that are not *)
LeaRegFiles ==
    { BaseRegs,
      [BaseRegs EXCEPT !.ds = 4660, !.ss = 8193, !.es = 17185] }

LeaPrefixes == {<<>>, <<38>>}

LeaFixture(regs, prefix, byte, disp) ==
    [regs |-> regs,
     ram |-> Bytes(cpu_calc_addr(regs.cs, regs.ip),
                   prefix \o <<141, byte>> \o disp)]

InitLea ==
    \E regs \in LeaRegFiles, prefix \in LeaPrefixes, byte \in LeaModRMs,
       disp \in LeaDisplacements :
        FixtureLoaded(LeaFixture(regs, prefix, byte, disp))

NextLea == DoOpPrefix \/ DoOpExec

SpecLea == InitLea /\ [][NextLea]_vars

(* ------------------------------------------------------------------ *)
(* One string instruction: opcode, FLAGS, SI, DI and AX are drawn, the *)
(* instruction is written twice at CS:IP and do_op is called           *)
(* ------------------------------------------------------------------ *)
StringOpcodes == {164, 165, 166, 167, 170, 171, 172, 173, 174, 175}

(* DF clear and set, each with no status flag and with all of them *)
StringFlags == {2, 2263, 1026, 3287}

StringIndexes == {0, 1, 16, 65535}

StringAccumulators == {0, 4660}

StringFixture(opcode, f, si, di, ax) ==
    [regs |-> [BaseRegs EXCEPT !.flags = f, !.si = si, !.di = di, !.ax = ax],
     ram |-> Bytes(cpu_calc_addr(BaseRegs.ds, 0), <<52, 18>>)
             \o Bytes(cpu_calc_addr(BaseRegs.ds, 16), <<173, 222>>)
             \o Bytes(cpu_calc_addr(BaseRegs.es, 0), <<52, 18>>)
             \o Bytes(cpu_calc_addr(BaseRegs.es, 16), <<239, 190>>)
             \o Bytes(cpu_calc_addr(BaseRegs.cs, BaseRegs.ip),
                      <<opcode, opcode>>)]

InitString ==
    \E opcode \in StringOpcodes, f \in StringFlags, si \in StringIndexes,
       di \in StringIndexes, ax \in StringAccumulators :
        FixtureLoaded(StringFixture(opcode, f, si, di, ax))

SpecString == InitString /\ [][NextOperands]_vars

(* ------------------------------------------------------------------ *)
(* One MOVSB: DS, SI, ES, DI, the source byte and DF are drawn; the    *)
(* source byte is put at (DS*16 + SI) mod 2^20, 0x99 at the            *)
(* destination, the opcode twice at CS:IP, and do_op is called         *)
(* ------------------------------------------------------------------ *)
MovsSources == {12288, 65535}

MovsDestinations == {16384, 65535}

MovsIndexes == {15, 16, 32, 65535}

MovsBytes == {0, 66, 255}

MovsFlags == {2, 1026}

MovsFixture(ds, si, es, di, v, f) ==
    [regs |-> [BaseRegs EXCEPT !.ds = ds, !.si = si, !.es = es, !.di = di,
                               !.flags = f],
     ram |-> Bytes(cpu_calc_addr(es, di), <<153>>)
             \o Bytes(cpu_calc_addr(ds, si), <<v>>)
             \o Bytes(cpu_calc_addr(BaseRegs.cs, BaseRegs.ip), <<164, 164>>)]

InitMovs ==
    \E ds \in MovsSources, si \in MovsIndexes, es \in MovsDestinations,
       di \in MovsIndexes, v \in MovsBytes, f \in MovsFlags :
        FixtureLoaded(MovsFixture(ds, si, es, di, v, f))

SpecMovs == InitMovs /\ [][NextOperands]_vars

(* ------------------------------------------------------------------ *)
(* One LAHF: FLAGS and AX are drawn, among them FLAGS = 0 as init_8086 *)
(* leaves it; the opcode is written twice at CS:IP and do_op is called *)
(* ------------------------------------------------------------------ *)
LahfFlags == {0, 2, 40, 42, 213, 215, 255, 2263, 61442, 65535}

LahfFixture(f, ax) ==
    [regs |-> [BaseRegs EXCEPT !.flags = f, !.ax = ax],
     ram |-> Bytes(cpu_calc_addr(BaseRegs.cs, BaseRegs.ip), <<159, 159>>)]

InitLahf ==
    \E f \in LahfFlags, ax \in OperandValues :
        FixtureLoaded(LahfFixture(f, ax))

SpecLahf == InitLahf /\ [][NextOperands]_vars

(* ------------------------------------------------------------------ *)
(* One instruction of any opcode: the opcode, the byte after it and    *)
(* FLAGS are drawn, the bytes are written at CS:IP and do_op is called *)
(* ------------------------------------------------------------------ *)
AnyOpcodes == 0 .. 255

(* ModR/M bytes for [BX+SI] and for a register, with every reg field *)
AnySecondBytes == { 8 * k : k \in 0 .. 7 } \cup { 192 + 8 * k : k \in 0 .. 7 }

(* bits 3 and 5 set and every other bit clear, and the complement *)
AnyFlags == {40, 65495}

AnyFixture(opcode, second, f) ==
    [regs |-> [BaseRegs EXCEPT !.flags = f],
     ram |-> DataImage
             \o Bytes(cpu_calc_addr(BaseRegs.cs, BaseRegs.ip),
                      <<opcode, second, 1, 0>>)]

InitAny ==
    \E opcode \in AnyOpcodes, second \in AnySecondBytes, f \in AnyFlags :
        FixtureLoaded(AnyFixture(opcode, second, f))

NextAny == DoOpPrefix \/ DoOpExec

SpecAny == InitAny /\ [][NextAny]_vars

(* ------------------------------------------------------------------ *)
(* One Grp2 shift or rotate: opcode 0xD0..0xD3, the operation in the   *)
(* reg field, a register (AL/AX) or memory ([0100]) operand, its       *)
(* value, CL and FLAGS are drawn; the instruction is written twice at  *)
(* CS:IP and do_op is called                                           *)
(* ------------------------------------------------------------------ *)
ShiftOpcodes == 208 .. 211

ShiftOperations == 0 .. 7

(* CL: effective counts 0 (CL = 0 and CL = 32), 1 (CL = 1 and CL = 33) *)
(* and more than 1                                                     *)
ShiftCounts == {0, 1, 2, 9, 32, 33}

ShiftEncodings ==
    { [code |-> <<opcode, 192 + 8 * op>>, imm |-> 0] :
        opcode \in ShiftOpcodes, op \in ShiftOperations }
    \cup { [code |-> <<opcode, 6 + 8 * op, 0, 1>>, imm |-> 0] :
             opcode \in ShiftOpcodes, op \in ShiftOperations }

ShiftFixture(enc, v, cl, f) ==
    [regs |-> [BaseRegs EXCEPT !.ax = v, !.cx = cl, !.flags = f],
     ram |-> Bytes(cpu_calc_addr(BaseRegs.ds, 256), <<Lo(v), Hi(v)>>)
             \o Bytes(cpu_calc_addr(BaseRegs.cs, BaseRegs.ip),
                      enc.code \o enc.code)]

InitShift ==
    \E enc \in ShiftEncodings, v \in OperandValues, cl \in ShiftCounts,
       f \in OperandFlags :
        FixtureLoaded(ShiftFixture(enc, v, cl, f))

SpecShift == InitShift /\ [][NextOperands]_vars

(* IMUL by BL, by BX and by the byte and the word at [0100] *)
ImulEncodings ==
    { [code |-> <<246, 235>>, imm |-> 0],
      [code |-> <<247, 235>>, imm |-> 0],
      [code |-> <<246, 46, 0, 1>>, imm |-> 0],
      [code |-> <<247, 46, 0, 1>>, imm |-> 0] }

InitImul == InitOperands(ImulEncodings)

SpecImul == InitImul /\ [][NextOperands]_vars

(* ------------------------------------------------------------------ *)
(* One MOV r8, imm8: the opcode, the immediate byte, the contents of   *)
(* AX, BX, CX and DX, IP and FLAGS are drawn; the instruction is       *)
(* written twice at CS:IP and do_op is called                          *)
(* ------------------------------------------------------------------ *)
MovImmOpcodes == 176 .. 183

MovImmBytes == {0, 1, 138, 255}

MovImmRegisters == {0, 255, 43441, 65535}

MovImmIps == {256, 24428}

MovImmFixture(opcode, imm, v, ip, f) ==
    [regs |-> [BaseRegs EXCEPT !.ax = v, !.bx = v, !.cx = v, !.dx = v,
                               !.ip = ip, !.flags = f],
     ram |-> Bytes(cpu_calc_addr(BaseRegs.cs, ip), <<opcode, imm, opcode, imm>>)]

InitMovImm ==
    \E opcode \in MovImmOpcodes, imm \in MovImmBytes, v \in MovImmRegisters,
       ip \in MovImmIps, f \in OperandFlags :
        FixtureLoaded(MovImmFixture(opcode, imm, v, ip, f))

SpecMovImm == InitMovImm /\ [][NextOperands]_vars

(* ------------------------------------------------------------------ *)
(* One repeated string instruction: REP or REPNE, the string opcode,   *)
(* FLAGS, SI, DI and CX are drawn; prefix and opcode are written twice *)
(* at CS:IP and do_op is called                                        *)
(* ------------------------------------------------------------------ *)
RepPrefixes == {242, 243}

RepIndexes == {0, 16}

RepCounts == {0, 3}

RepFixture(prefix, opcode, f, si, di, cx) ==
    [regs |-> [BaseRegs EXCEPT !.flags = f, !.si = si, !.di = di, !.cx = cx],
     ram |-> Bytes(cpu_calc_addr(BaseRegs.ds, 0), <<52, 18>>)
             \o Bytes(cpu_calc_addr(BaseRegs.ds, 16), <<173, 222>>)
             \o Bytes(cpu_calc_addr(BaseRegs.es, 0), <<52, 18>>)
             \o Bytes(cpu_calc_addr(BaseRegs.es, 16), <<239, 190>>)
             \o Bytes(cpu_calc_addr(BaseRegs.cs, BaseRegs.ip),
                      <<prefix, opcode, prefix, opcode>>)]

InitRep ==
    \E prefix \in RepPrefixes, opcode \in StringOpcodes, f \in StringFlags,
       si \in RepIndexes, di \in RepIndexes, cx \in RepCounts :
        FixtureLoaded(RepFixture(prefix, opcode, f, si, di, cx))

SpecRep == InitRep /\ [][NextAny]_vars

(* ------------------------------------------------------------------ *)
(* do_op on prefix bytes: memory is loaded with one prefix byte in     *)
(* every cell, or holds a run of prefix bytes before a NOP at CS:IP;   *)
(* do_op is called as main_loop calls it. The loop of do_op runs       *)
(* whenever it can run, and so does the switch after it.               *)
(* ------------------------------------------------------------------ *)
PrefixFills == {243}

PrefixRuns ==
    { <<243, 144, 144>>, <<38, 144, 144>>,
      <<38, 46, 54, 62, 242, 243, 144, 144>> }

InitPrefix ==
    /\ cpu = set_cpu_regs(init_8086(ZeroCpu).cpu, BaseRegs)
    /\ \/ \E b \in PrefixFills : ram = FilledRam(b)
       \/ \E run \in PrefixRuns :
              ram = set_cpu_ram(init_8086(ZeroCpu).ram,
                                Bytes(cpu_calc_addr(BaseRegs.cs, BaseRegs.ip),
                                      run))
    /\ phase = "idle"
    /\ hist = <<>>
    /\ steps = 0
    /\ call = [fn |-> "set_cpu"]

SpecPrefix ==
    /\ InitPrefix
    /\ [][NextAny]_vars
    /\ WF_vars(DoOpPrefix)
    /\ WF_vars(DoOpExec)

(* Grp1 ADD r/m, imm in its four opcodes, register and memory forms;   *)
(* the immediate is operand b (its low byte for imm8)                  *)
Grp1AddEncodings ==
    { [code |-> <<128, 192>>, imm |-> 1],          \* ADD AL,imm8
      [code |-> <<128, 6, 0, 1>>, imm |-> 1],      \* ADD byte [0100],imm8
      [code |-> <<129, 192>>, imm |-> 2],          \* ADD AX,imm16
      [code |-> <<129, 6, 0, 1>>, imm |-> 2],      \* ADD word [0100],imm16
      [code |-> <<130, 196>>, imm |-> 1],          \* ADD AH,imm8
      [code |-> <<131, 192>>, imm |-> 1],          \* ADD AX,imm8 sign-extended
      [code |-> <<131, 6, 0, 1>>, imm |-> 1] }     \* ADD word [0100],imm8

InitGrp1Add == InitOperands(Grp1AddEncodings)

SpecGrp1Add == InitGrp1Add /\ [][NextOperands]_vars

(* ADC in its six opcodes, register and memory forms *)
AdcEncodings ==
    { [code |-> <<16, 6, 0, 1>>, imm |-> 0],   \* ADC [0100],AL
      [code |-> <<16, 216>>, imm |-> 0],       \* ADC AL,BL
      [code |-> <<17, 6, 0, 1>>, imm |-> 0],   \* ADC [0100],AX
      [code |-> <<17, 216>>, imm |-> 0],       \* ADC AX,BX
      [code |-> <<18, 6, 0, 1>>, imm |-> 0],   \* ADC AL,[0100]
      [code |-> <<18, 227>>, imm |-> 0],       \* ADC AH,BL
      [code |-> <<19, 6, 0, 1>>, imm |-> 0],   \* ADC AX,[0100]
      [code |-> <<19, 195>>, imm |-> 0],       \* ADC AX,BX
      [code |-> <<20>>, imm |-> 1],            \* ADC AL,imm8
      [code |-> <<21>>, imm |-> 2] }           \* ADC AX,imm16

InitAdc == InitOperands(AdcEncodings)

SpecAdc == InitAdc /\ [][NextOperands]_vars

(* SBB in its six opcodes, register and memory forms *)
SbbEncodings ==
    { [code |-> <<24, 6, 0, 1>>, imm |-> 0],   \* SBB [0100],AL
      [code |-> <<24, 216>>, imm |-> 0],       \* SBB AL,BL
      [code |-> <<25, 6, 0, 1>>, imm |-> 0],   \* SBB [0100],AX
      [code |-> <<25, 216>>, imm |-> 0],       \* SBB AX,BX
      [code |-> <<26, 6, 0, 1>>, imm |-> 0],   \* SBB AL,[0100]
      [code |-> <<26, 227>>, imm |-> 0],       \* SBB AH,BL
      [code |-> <<27, 6, 0, 1>>, imm |-> 0],   \* SBB AX,[0100]
      [code |-> <<27, 195>>, imm |-> 0],       \* SBB AX,BX
      [code |-> <<28>>, imm |-> 1],            \* SBB AL,imm8
      [code |-> <<29>>, imm |-> 2] }           \* SBB AX,imm16

InitSbb == InitOperands(SbbEncodings)

SpecSbb == InitSbb /\ [][NextOperands]_vars

(* ------------------------------------------------------------------ *)
(* One CALL near at CS:IP with the displacement rel16, and at its      *)
(* target a RET near or a NOP; IP, SP and FLAGS are drawn, and do_op   *)
(* is called as main_loop calls it                                     *)
(* ------------------------------------------------------------------ *)
CallDisplacements == {0, 16, 32768, 65520}

CallIps == {256, 65533}

CallSps == {0, 2, 256}

CallTargets == {195, 144}

CallFixture(ip, sp, rel16, target, f) ==
    [regs |-> [BaseRegs EXCEPT !.ip = ip, !.sp = sp, !.flags = f],
     ram |-> Bytes(cpu_calc_addr(BaseRegs.cs, ip),
                   <<232, Lo(rel16), Hi(rel16)>>)
             \o Bytes(cpu_calc_addr(BaseRegs.cs, U16(ip + 3 + rel16)),
                      <<target>>)]

InitCall ==
    \E ip \in CallIps, sp \in CallSps, rel16 \in CallDisplacements,
       target \in CallTargets, f \in OperandFlags :
        FixtureLoaded(CallFixture(ip, sp, rel16, target, f))

SpecCall == InitCall /\ [][NextOperands]_vars

(* ------------------------------------------------------------------ *)
(* One INT imm8 at CS:IP, its vector in the table at 0000:vec*4, and   *)
(* at the handler an IRET or a NOP; the vector number, the handler     *)
(* address, IP, SP and FLAGS are drawn, and do_op is called as         *)
(* main_loop calls it                                                  *)
(* ------------------------------------------------------------------ *)
IntVectors == {0, 33, 255}

IntHandlers == { [ip |-> 512, cs |-> 20480], [ip |-> 65535, cs |-> 61440] }

IntIps == {256, 65534}

IntSps == {4, 256}

(* no flag, IF and TF, every defined flag, every bit *)
IntFlags == {2, 770, 4055, 65535}

IntTargets == {207, 144}

IntFixture(vec, handler, ip, sp, f, target) ==
    [regs |-> [BaseRegs EXCEPT !.ip = ip, !.sp = sp, !.flags = f],
     ram |-> Bytes(cpu_calc_addr(BaseRegs.cs, ip), <<205, vec>>)
             \o Bytes(vec * 4, <<Lo(handler.ip), Hi(handler.ip),
                                 Lo(handler.cs), Hi(handler.cs)>>)
             \o Bytes(cpu_calc_addr(handler.cs, handler.ip), <<target>>)]

InitInt ==
    \E vec \in IntVectors, handler \in IntHandlers, ip \in IntIps,
       sp \in IntSps, f \in IntFlags, target \in IntTargets :
        FixtureLoaded(IntFixture(vec, handler, ip, sp, f, target))

SpecInt == InitInt /\ [][NextOperands]_vars

(* ------------------------------------------------------------------ *)
(* 5150emu.c: main_loop(cpu, instructions). call.instructions is the   *)
(* local that counts down, call.budget the argument it started from.   *)
(*   phase "idle"    at the test of the while loop                     *)
(*         "exited"  main_loop has returned                            *)
(*         "killed"  the process died inside do_op                     *)
(* ------------------------------------------------------------------ *)
(* the CPU after the prefix loop of do_op, and the passes it made *)
RECURSIVE prefix_loop(_, _)
prefix_loop(c, m) ==
    IF is_prefix(cpu_read_byte(m, cpu_get_pc(c)))
    THEN prefix_loop(prefix_step(c, cpu_read_byte(m, cpu_get_pc(c))), m)
    ELSE c

RECURSIVE prefix_passes(_, _)
prefix_passes(c, m) ==
    IF is_prefix(cpu_read_byte(m, cpu_get_pc(c)))
    THEN 1 + prefix_passes(prefix_step(c, cpu_read_byte(m, cpu_get_pc(c))), m)
    ELSE 0

(* main_loop has been entered with the argument n on the fixture F *)
MainLoopEntered(F, n) ==
    /\ cpu = set_cpu_regs(init_8086(ZeroCpu).cpu, F.regs)
    /\ ram = set_cpu_ram(init_8086(ZeroCpu).ram, F.ram)
    /\ phase = "idle"
    /\ hist = <<>>
    /\ steps = 0
    /\ call = [fn |-> "main_loop", instructions |-> n, budget |-> n]

(* the body of the while loop: at is the CPU the switch of do_op       *)
(* found, s the state the call ends in                                 *)
MainLoopBody(at, npfx, s) ==
    IF s.fault # "none"
    THEN /\ phase' = "killed"
         /\ UNCHANGED <<cpu, ram, hist, steps, call>>
    ELSE /\ cpu' = s.cpu
         /\ ram' = s.ram
         /\ hist' = Append(hist, [entry |-> [cpu |-> cpu, ram |-> ram],
                                  npfx |-> npfx,
                                  at |-> at,
                                  exit |-> [cpu |-> s.cpu, ram |-> s.ram],
                                  ret |-> do_op_return])
         /\ steps' = steps + 1
         /\ call' = [call EXCEPT !.instructions = @ - 1]
         /\ phase' = IF s.cpu.running = 0 THEN "exited" ELSE "idle"

(* one pass of while ((cpu->running == 1) && (instructions > 0)):      *)
(* do_op, instructions--, and the break when the CPU has stopped       *)
MainLoopPass ==
    /\ phase = "idle"
    /\ cpu.running = 1
    /\ call.instructions > 0
    /\ \E ub \in {"wrap", "trap"} :
          MainLoopBody(prefix_loop(cpu, ram), prefix_passes(cpu, ram),
                       do_op_tail([cpu |-> prefix_loop(cpu, ram),
                                   ram |-> ram, ub |-> ub,
                                   fault |-> "none"]))

(* the while condition fails and main_loop returns *)
MainLoopReturn ==
    /\ phase = "idle"
    /\ ~(cpu.running = 1 /\ call.instructions > 0)
    /\ phase' = "exited"
    /\ UNCHANGED <<cpu, ram, hist, steps, call>>

NextMainLoop == MainLoopPass \/ MainLoopReturn

(* ------------------------------------------------------------------ *)
(* One LOOPNE, LOOPE, LOOP or JCXZ at CS:IP, NOPs after it; the        *)
(* displacement, CX and FLAGS are drawn and main_loop steps the        *)
(* program                                                             *)
(* ------------------------------------------------------------------ *)
LoopInstructions == 5

LoopOpcodes == 224 .. 227

(* -2, the LOOP's own address, and +2 *)
LoopDisplacements == {254, 2}

LoopCounts == {0, 1, 2, 3, 4, 65535}

(* ZF clear, ZF and every other status flag set *)
LoopFlags == {2, 2263}

LoopFixture(opcode, rel8, cx, f) ==
    [regs |-> [BaseRegs EXCEPT !.cx = cx, !.flags = f],
     ram |-> Bytes(cpu_calc_addr(BaseRegs.cs, BaseRegs.ip),
                   <<opcode, rel8, 144, 144, 144, 144, 144, 144>>)]

InitLoop ==
    \E opcode \in LoopOpcodes, rel8 \in LoopDisplacements,
       cx \in LoopCounts, f \in LoopFlags :
        MainLoopEntered(LoopFixture(opcode, rel8, cx, f), LoopInstructions)

SpecLoop == InitLoop /\ [][NextMainLoop]_vars

(* ------------------------------------------------------------------ *)
(* One CMPSB or CMPSW: the element a at DS:SI, the element b at ES:DI  *)
(* and FLAGS are drawn, the opcode is written twice at CS:IP and do_op *)
(* is called                                                           *)
(* ------------------------------------------------------------------ *)
CmpsOpcodes == {166, 167}

CmpsFixture(opcode, a, b, f) ==
    [regs |-> [BaseRegs EXCEPT !.flags = f],
     ram |-> Bytes(cpu_calc_addr(BaseRegs.ds, BaseRegs.si), <<Lo(a), Hi(a)>>)
             \o Bytes(cpu_calc_addr(BaseRegs.es, BaseRegs.di),
                      <<Lo(b), Hi(b)>>)
             \o Bytes(cpu_calc_addr(BaseRegs.cs, BaseRegs.ip),
                      <<opcode, opcode>>)]

InitCmps ==
    \E opcode \in CmpsOpcodes, a \in OperandValues, b \in OperandValues,
       f \in OperandFlags :
        FixtureLoaded(CmpsFixture(opcode, a, b, f))

SpecCmps == InitCmps /\ [][NextOperands]_vars

(* ------------------------------------------------------------------ *)
(* One MOV AL,imm8, MOV AX,imm16 or MOV AL,r/m8 at CS:IP, with IP at   *)
(* or next to the end of the code segment: the bytes after the opcode  *)
(* are placed at the offsets IP+1 and IP+2 wrapped to 16 bits, and     *)
(* other bytes at the physical addresses after the opcode; do_op is    *)
(* then called                                                         *)
(* ------------------------------------------------------------------ *)
FetchOpcodes == {176, 184, 138}

FetchIps == {256, 65534, 65535}

(* the byte at offset IP+1 and the byte at the next physical address:  *)
(* as ModR/M they name BL or CL                                        *)
FetchSeconds == { <<193, 195>>, <<195, 193>>, <<193, 193>> }

(* the same for the byte at offset IP+2 *)
FetchThirds == { <<18, 52>> }

FetchFixture(opcode, ip, second, third, f) ==
    [regs |-> [BaseRegs EXCEPT !.ip = ip, !.flags = f],
     ram |-> Bytes(cpu_calc_addr(BaseRegs.cs, ip),
                   <<opcode, second[2], third[2]>>)
             \o Bytes(cpu_calc_addr(BaseRegs.cs, U16(ip + 1)), <<second[1]>>)
             \o Bytes(cpu_calc_addr(BaseRegs.cs, U16(ip + 2)), <<third[1]>>)]

InitFetch ==
    \E opcode \in FetchOpcodes, ip \in FetchIps, second \in FetchSeconds,
       third \in FetchThirds, f \in OperandFlags :
        FixtureLoaded(FetchFixture(opcode, ip, second, third, f))

SpecFetch == InitFetch /\ [][NextOperands]_vars

(* ------------------------------------------------------------------ *)
(* main_loop on programs that halt the CPU by HLT, by a divide error   *)
(* or by an undefined opcode, and on one that does not halt; the       *)
(* argument instructions is drawn                                      *)
(* ------------------------------------------------------------------ *)
MainInstructions == 0 .. 4

MainPrograms ==
    { <<144, 244, 144, 144>>,          \* NOP; HLT; NOP; NOP
      <<244, 244>>,                    \* HLT; HLT
      <<38, 244, 144>>,                \* ES: HLT; NOP
      <<144, 144, 144, 144, 144>>,     \* NOP five times
      <<144, 246, 243, 144>>,          \* NOP; DIV BL with BL = 0; NOP
      <<144, 214, 144, 144>> }         \* NOP; 0xD6, no case of the switch

MainFixture(prog, f) ==
    [regs |-> [BaseRegs EXCEPT !.flags = f],
     ram |-> Bytes(cpu_calc_addr(BaseRegs.cs, BaseRegs.ip), prog)]

InitMain ==
    \E prog \in MainPrograms, f \in OperandFlags, n \in MainInstructions :
        MainLoopEntered(MainFixture(prog, f), n)

SpecMain == InitMain /\ [][NextMainLoop]_vars

(* ------------------------------------------------------------------ *)
(* PUSH SP followed by POP SP, POP AX or NOP at CS:IP; SP and FLAGS    *)
(* are drawn and do_op is called as main_loop calls it                 *)
(* ------------------------------------------------------------------ *)
PushSpValues == {0, 2, 4, 256, 4660, 32768, 65532, 65534}

PushSpPrograms == { <<84, 92>>, <<84, 88>>, <<84, 144>> }

PushSpFixture(prog, sp, f) ==
    [regs |-> [BaseRegs EXCEPT !.sp = sp, !.flags = f],
     ram |-> Bytes(cpu_calc_addr(BaseRegs.cs, BaseRegs.ip), prog)]

InitPushSp ==
    \E prog \in PushSpPrograms, sp \in PushSpValues, f \in OperandFlags :
        FixtureLoaded(PushSpFixture(prog, sp, f))

SpecPushSp == InitPushSp /\ [][NextOperands]_vars

(* ------------------------------------------------------------------ *)
(* Properties                                                          *)
(* ------------------------------------------------------------------ *)
(* C1: for every 16-bit segment and offset, cpu_calc_addr returns      *)
(* (segment * 16 + offset) mod 2^20, a value in [0, 2^20)              *)
C1_CalcAddrWraps ==
    call.fn = "cpu_calc_addr" =>
        /\ call.ret = (call.segment * 16 + call.offset) % Pow2(20)
        /\ call.ret >= 0
        /\ call.ret < Pow2(20)

(* a call whose sum passed 2^20 has returned *)
C1_Witness ==
    /\ call.fn = "cpu_calc_addr"
    /\ call.segment * 16 + call.offset >= Pow2(20)

(* C2: a word access at physical address 2^20 - 1 wraps: the read      *)
(* returns the byte at 0xFFFFF as low byte and the byte at 0 as high   *)
(* byte, the write stores the low byte at 0xFFFFF and the high byte at *)
(* address 0                                                           *)
C2_WordWrapsAtTop ==
    /\ (call.fn = "cpu_read_word" /\ call.addr = Pow2(20) - 1) =>
           call.ret = Peek(call.before, Pow2(20) - 1)
                      + 256 * Peek(call.before, 0)
    /\ (call.fn = "cpu_write_word" /\ call.addr = Pow2(20) - 1) =>
           /\ Peek(ram, Pow2(20) - 1) = call.value % 256
           /\ Peek(ram, 0) = call.value \div 256

(* a word access at 0xFFFFF has been made *)
C2_Witness ==
    /\ call.fn \in {"cpu_read_word", "cpu_write_word"}
    /\ call.addr = Pow2(20) - 1

(* C3: after init_8086, CS = 0xF000, IP = 0xFFF0, SP = 0xFFFE,         *)
(* FLAGS = 0, every other register and the segment-override and REP   *)
(* selectors are 0, every byte of memory is 0 and the CPU runs        *)
C3_ResetState ==
    phase = "reset" =>
        /\ cpu.cs = 61440 /\ cpu.ip = 65520 /\ cpu.sp = 65534
        /\ cpu.flags = 0
        /\ cpu.ax = 0 /\ cpu.bx = 0 /\ cpu.cx = 0 /\ cpu.dx = 0
        /\ cpu.bp = 0 /\ cpu.si = 0 /\ cpu.di = 0
        /\ cpu.ds = 0 /\ cpu.ss = 0 /\ cpu.es = 0
        /\ cpu.seg_override = 0 /\ cpu.rep_prefix = 0
        /\ cpu.running = 1
        /\ \A a \in DOMAIN ram : ram[a] = 0

(* init_8086 has returned on a CPU that held other contents *)
C3_Witness == phase = "reset" /\ call.fn = "init_8086" /\ call.dirty

(* the machine as the switch of the do_op call recorded in h found it, *)
(* and the opcode byte it dispatched on                                *)
dispatch_state(h) ==
    [cpu |-> h.at, ram |-> h.entry.ram, ub |-> "wrap", fault |-> "none"]

dispatch_opcode(h) == opcode_at_pc(dispatch_state(h))

(* LEA, LDS, LES, MOV Sreg and MOV r/m,r: opcode, ModR/M, displacement *)
C4_Opcodes == (136 .. 142) \cup {196, 197}

(* C4: an instruction that is no control transfer and raises no error  *)
(* advances IP (mod 2^16) by its length, prefixes + opcode + ModR/M +  *)
(* displacement + immediate; stated for MOV r/m,r (0x88..0x8B), MOV    *)
(* Sreg (0x8C, 0x8E), LEA (0x8D), LES (0xC4) and LDS (0xC5), which     *)
(* carry no immediate                                                  *)
C4_IpAdvancesByLength ==
    \A i \in DOMAIN hist :
        (/\ dispatch_opcode(hist[i]) \in C4_Opcodes
         /\ hist[i].exit.cpu.running = 1) =>
            hist[i].exit.cpu.ip =
                U16(hist[i].entry.cpu.ip + hist[i].npfx + 1
                    + modrm_at(dispatch_state(hist[i])).length)

(* LEA, LDS, LES or MOV Sreg has executed without an error *)
C4_Witness ==
    \E i \in DOMAIN hist :
        /\ dispatch_opcode(hist[i]) \in {140, 141, 142, 196, 197}
        /\ hist[i].exit.cpu.running = 1

(* C5: PUSH of a register holding v followed by POP into a register    *)
(* (other than SP) leaves v in that register and SP as it was before   *)
(* the PUSH, for every v, SS and SP                                    *)
C5_PushPopRoundTrip ==
    \A i \in DOMAIN hist :
        (/\ i + 1 \in DOMAIN hist
         /\ dispatch_opcode(hist[i]) \in 80 .. 87
         /\ dispatch_opcode(hist[i + 1]) \in (88 .. 95) \ {92}) =>
            /\ get_reg16(hist[i + 1].exit.cpu, dispatch_opcode(hist[i + 1]) - 88)
               = get_reg16(hist[i].at, dispatch_opcode(hist[i]) - 80)
            /\ hist[i + 1].exit.cpu.sp = hist[i].entry.cpu.sp

(* a PUSH reg has been followed by a POP reg *)
C5_Witness ==
    \E i \in DOMAIN hist :
        /\ i + 1 \in DOMAIN hist
        /\ dispatch_opcode(hist[i]) \in 80 .. 87
        /\ dispatch_opcode(hist[i + 1]) \in (88 .. 95) \ {92}

(* C6: on an opcode byte without a handler the CPU is halted, IP       *)
(* points at that byte, and every other register, FLAGS and all of    *)
(* memory are as they were when do_op was entered                     *)
C6_UndefinedOpcodeHalts ==
    \A i \in DOMAIN hist :
        dispatch_opcode(hist[i]) \notin case_labels =>
            /\ hist[i].exit.cpu.running = 0
            /\ cpu_read_byte(hist[i].exit.ram, cpu_get_pc(hist[i].exit.cpu))
               = dispatch_opcode(hist[i])
            /\ hist[i].exit.cpu.ip = U16(hist[i].entry.cpu.ip + hist[i].npfx)
            /\ hist[i].exit.cpu =
                   [hist[i].entry.cpu EXCEPT !.running = 0,
                                             !.ip = hist[i].exit.cpu.ip]
            /\ hist[i].exit.ram = hist[i].entry.ram

(* an opcode without a handler has been reached behind a prefix *)
C6_Witness ==
    \E i \in DOMAIN hist :
        /\ dispatch_opcode(hist[i]) \notin case_labels
        /\ hist[i].npfx > 0

(* the call recorded in h is DIV or IDIV with divisor 0, or AAM 0 *)
is_divide_by_zero(h) ==
    \/ /\ dispatch_opcode(h) \in {246, 247}
       /\ modrm_at(dispatch_state(h)).reg \in {6, 7}
       /\ rm_read(dispatch_state(h), modrm_at(dispatch_state(h)),
                  dispatch_opcode(h) = 246) = 0
    \/ /\ dispatch_opcode(h) = 212
       /\ imm8_at(dispatch_state(h), 1) = 0

(* C7: a divide error (DIV, IDIV with divisor 0 or a quotient out of   *)
(* range, AAM 0) halts the CPU and leaves AX, DX, IP, FLAGS, every    *)
(* other register and memory as before the step; the step returns     *)
C7_DivideErrorLeavesState ==
    /\ phase # "killed"
    /\ \A i \in DOMAIN hist :
           is_divide_by_zero(hist[i]) =>
               /\ hist[i].exit.cpu = [hist[i].entry.cpu EXCEPT !.running = 0]
               /\ hist[i].exit.ram = hist[i].entry.ram

(* a division by zero has been executed *)
C7_Witness == \E i \in DOMAIN hist : is_divide_by_zero(hist[i])

(* which of the four outcomes the call recorded in h had *)
step_outcome(h) ==
    IF dispatch_opcode(h) \notin case_labels THEN "UndefinedOpcode"
    ELSE IF is_divide_by_zero(h) THEN "DivideError"
    ELSE IF dispatch_opcode(h) = 244 THEN "Halted"
    ELSE "Continued"

(* C8: the value do_op returns differs between calls of different      *)
(* outcome (Continued, Halted, DivideError, UndefinedOpcode)           *)
C8_ReturnTellsOutcome ==
    \A i, j \in DOMAIN hist :
        step_outcome(hist[i]) # step_outcome(hist[j]) =>
            hist[i].ret # hist[j].ret

(* two calls of different outcome have returned *)
C8_Witness ==
    \E i, j \in DOMAIN hist : step_outcome(hist[i]) # step_outcome(hist[j])

(* SALC, XLAT, ESC, IN and OUT *)
C9_Opcodes == (214 .. 223) \cup (228 .. 231) \cup (236 .. 239)

(* C9: SALC (0xD6), XLAT (0xD7), ESC (0xD8..0xDF), IN and OUT          *)
(* (0xE4..0xE7, 0xEC..0xEF) reach their handler: the CPU stays        *)
(* running and IP moves past the instruction                          *)
C9_DefinedOpcodesDispatched ==
    \A i \in DOMAIN hist :
        dispatch_opcode(hist[i]) \in C9_Opcodes =>
            /\ hist[i].exit.cpu.running = 1
            /\ hist[i].exit.cpu.ip # hist[i].at.ip

(* one of these opcodes has been executed *)
C9_Witness ==
    \E i \in DOMAIN hist : dispatch_opcode(hist[i]) \in C9_Opcodes

(* C10: whenever do_op has returned, seg_override and rep_prefix are   *)
(* 0, so every call starts without an override left by an earlier one *)
C10_OverrideScopedToStep ==
    /\ (phase = "idle" /\ call.fn = "do_op") =>
           cpu.seg_override = 0 /\ cpu.rep_prefix = 0
    /\ \A i \in DOMAIN hist :
           /\ hist[i].exit.cpu.seg_override = 0
           /\ hist[i].exit.cpu.rep_prefix = 0
           /\ hist[i].entry.cpu.seg_override = 0

(* a call that consumed a segment prefix has returned and a later call *)
(* has been made                                                       *)
C10_Witness ==
    \E i \in DOMAIN hist :
        /\ hist[i].npfx > 0
        /\ hist[i].at.seg_override # 0
        /\ i + 1 \in DOMAIN hist

(* the direct-address MOV recorded in h has moved the byte or word at  *)
(* addr                                                                *)
C11_DirectMov(h, op, addr) ==
    CASE op = 160 -> Lo(h.exit.cpu.ax) = cpu_read_byte(h.entry.ram, addr)
      [] op = 161 -> h.exit.cpu.ax = cpu_read_word(h.entry.ram, addr)
      [] op = 162 -> h.exit.ram = cpu_write_byte(h.entry.ram, addr, Lo(h.at.ax))
      [] op = 163 -> h.exit.ram = cpu_write_word(h.entry.ram, addr, h.at.ax)
      [] OTHER -> TRUE

(* the string instruction recorded in h has read its source at src and *)
(* written its destination at dst; CMPS has set the flags it sets when *)
(* DS holds the override segment                                       *)
C11_String(h, op, src, dst) ==
    CASE op \in {164, 165} ->
             h.exit.ram = mem_write(h.entry.ram, dst, op = 164,
                                    mem_read(h.entry.ram, src, op = 164))
      [] op = 172 -> Lo(h.exit.cpu.ax) = cpu_read_byte(h.entry.ram, src)
      [] op = 173 -> h.exit.cpu.ax = cpu_read_word(h.entry.ram, src)
      [] op \in {166, 167} ->
             h.exit.cpu.flags =
                 cmps([dispatch_state(h) EXCEPT
                          !.cpu.ds = override_seg(h.at)]).cpu.flags
      [] op \in {170, 171} ->
             h.exit.ram = mem_write(h.entry.ram, dst, op = 170,
                                    IF op = 170 THEN Lo(h.at.ax) ELSE h.at.ax)
      [] OTHER -> TRUE

(* MOV r16,r/m16 with a memory operand has loaded the word at the      *)
(* operand's offset in the override segment                            *)
C11_ModRM(h, op, modrm) ==
    (op = 139 /\ modrm.is_memory) =>
        get_reg16(h.exit.cpu, modrm.reg) =
            cpu_read_word(h.entry.ram,
                          cpu_calc_addr(override_seg(h.at),
                                        calc_ea_offset(h.at, modrm.mod, modrm.rm,
                                                       modrm.displacement)))

(* C11: behind a segment-override prefix every overridable memory      *)
(* operand is addressed through the override segment: ModR/M memory   *)
(* operands, the direct address of MOV 0xA0..0xA3 and the DS:SI source *)
(* of MOVS, CMPS and LODS; the ES:DI destination of a string           *)
(* instruction stays in ES                                             *)
C11_OverrideAddressesOperands ==
    \A i \in DOMAIN hist :
        hist[i].at.seg_override # 0 =>
            /\ C11_DirectMov(hist[i], dispatch_opcode(hist[i]),
                             cpu_calc_addr(override_seg(hist[i].at),
                                           imm16_at(dispatch_state(hist[i]), 1)))
            /\ C11_String(hist[i], dispatch_opcode(hist[i]),
                          cpu_calc_addr(override_seg(hist[i].at), hist[i].at.si),
                          cpu_calc_addr(hist[i].at.es, hist[i].at.di))
            /\ C11_ModRM(hist[i], dispatch_opcode(hist[i]),
                         modrm_at(dispatch_state(hist[i])))

(* a direct-address MOV, MOVS, CMPS or LODS has executed behind a      *)
(* segment-override prefix                                             *)
C11_Witness ==
    \E i \in DOMAIN hist :
        /\ hist[i].at.seg_override # 0
        /\ dispatch_opcode(hist[i]) \in (160 .. 167) \cup {172, 173}

(* the ModR/M table: the base of the offset for r/m, where r/m = 6     *)
(* with mod = 00 has no base                                           *)
C12_Base(c, mod, rm) ==
    CASE rm = 0 -> c.bx + c.si
      [] rm = 1 -> c.bx + c.di
      [] rm = 2 -> c.bp + c.si
      [] rm = 3 -> c.bp + c.di
      [] rm = 4 -> c.si
      [] rm = 5 -> c.di
      [] rm = 6 -> IF mod = 0 THEN 0 ELSE c.bp
      [] rm = 7 -> c.bx

(* the displacement of the form: disp16 for mod = 10 and for mod = 00  *)
(* r/m = 6, the sign-extended disp8 for mod = 01, none otherwise       *)
C12_Disp(mod, rm, d8, d16) ==
    IF mod = 2 \/ (mod = 0 /\ rm = 6) THEN d16
    ELSE IF mod = 1 THEN (IF d8 >= 128 THEN d8 - 256 ELSE d8)
    ELSE 0

C12_DispSize(mod, rm) ==
    IF mod = 2 \/ (mod = 0 /\ rm = 6) THEN 2 ELSE IF mod = 1 THEN 1 ELSE 0

C12_Segment(c, mod, rm) ==
    IF rm \in {2, 3} \/ (rm = 6 /\ mod \in {1, 2}) THEN c.ss ELSE c.ds

(* ret is the decoding of the ModR/M byte with fields mod, reg, rm     *)
(* followed by the bytes d8 (also the low byte of d16)                 *)
C12_Decoded(ret, c, mod, reg, rm, d8, d16) ==
    /\ ret.reg = reg
    /\ ret.rm = rm
    /\ ret.is_memory <=> mod # 3
    /\ ret.length = 1 + (IF mod = 3 THEN 0 ELSE C12_DispSize(mod, rm))
    /\ mod # 3 =>
           ret.ea = (C12_Segment(c, mod, rm) * 16
                     + ((C12_Base(c, mod, rm) + C12_Disp(mod, rm, d8, d16))
                        % 65536)) % Pow2(20)

(* C12: decode_modrm follows the ModR/M table for every ModR/M byte:   *)
(* mod = 11 is a register operand; mod = 00 r/m = 6 is disp16 in DS;   *)
(* BP+SI, BP+DI and BP+disp default to SS, every other form to DS; a   *)
(* disp8 is sign-extended; the offset is reduced mod 2^16 before the  *)
(* segment is added; the length is 1 plus the displacement size        *)
C12_ModRMTable ==
    call.fn = "decode_modrm" =>
        C12_Decoded(call.ret, cpu,
                    Peek(ram, call.addr) \div 64,
                    (Peek(ram, call.addr) \div 8) % 8,
                    Peek(ram, call.addr) % 8,
                    Peek(ram, call.addr + 1),
                    Peek(ram, call.addr + 1) + 256 * Peek(ram, call.addr + 2))

(* [BP+disp8] has been decoded with a negative displacement and a base *)
(* that the displacement takes below 2^16 again from above             *)
C12_Witness ==
    /\ call.fn = "decode_modrm"
    /\ Peek(ram, call.addr) \div 64 = 1
    /\ Peek(ram, call.addr) % 8 = 2
    /\ Peek(ram, call.addr + 1) >= 128
    /\ cpu.bp + cpu.si > 65535
    /\ call.ret.length = 2

(* the machine as the do_op call recorded in h left it *)
exit_state(h) ==
    [cpu |-> h.exit.cpu, ram |-> h.exit.ram, ub |-> "wrap", fault |-> "none"]

(* The two-operand families 0x00..0x3D: the low three bits of the      *)
(* opcode select the form (r/m,reg  reg,r/m  AL,imm8  AX,imm16), bit 0 *)
(* the width. Source and destination before the call, destination     *)
(* after it: st is the state the destination is read in               *)
alu_width(op) == IF op % 2 = 0 THEN 256 ELSE 65536

alu_src(h, op) ==
    IF op % 8 <= 3
    THEN modrm_src(dispatch_state(h), modrm_at(dispatch_state(h)),
                   op % 2 = 0, (op \div 2) % 2 = 1)
    ELSE IF op % 8 = 4 THEN imm8_at(dispatch_state(h), 1)
    ELSE imm16_at(dispatch_state(h), 1)

alu_dst(h, op, st) ==
    IF op % 8 <= 3
    THEN modrm_dst(st, modrm_at(dispatch_state(h)), op % 2 = 0,
                   (op \div 2) % 2 = 1)
    ELSE IF op % 8 = 4 THEN Lo(st.cpu.ax)
    ELSE st.cpu.ax

(* the low byte of v has an even number of 1 bits *)
even_parity(v) ==
    Cardinality({k \in 0 .. 7 : (v \div Pow2(k)) % 2 = 1}) % 2 = 0

(* ZF, SF and PF of c are those of the w-wide result res *)
flags_of_result(c, w, res) ==
    /\ FLAG_TST(c, FLAGS_ZF) <=> res = 0
    /\ FLAG_TST(c, FLAGS_SF) <=> res >= w \div 2
    /\ FLAG_TST(c, FLAGS_PF) <=> even_parity(res)

(* c and res are what ADD leaves for destination dst and source src *)
C13_Added(c, w, dst, src, res) ==
    /\ res = (dst + src) % w
    /\ FLAG_TST(c, FLAGS_CF) <=> dst + src > w - 1
    /\ FLAG_TST(c, FLAGS_AF) <=> (dst % 16) + (src % 16) > 15
    /\ FLAG_TST(c, FLAGS_OV) <=>
           /\ (src >= w \div 2) = (dst >= w \div 2)
           /\ (res >= w \div 2) # (dst >= w \div 2)
    /\ flags_of_result(c, w, res)

(* C13: ADD 0x00..0x05 stores (dst + src) mod 2^w; CF iff the unsigned *)
(* sum exceeds 2^w - 1, AF iff there is a carry out of bit 3, OF iff   *)
(* src and dst have the same sign and the result the other, ZF, SF and *)
(* PF from the truncated result                                        *)
C13_AddResultAndFlags ==
    \A i \in DOMAIN hist :
        dispatch_opcode(hist[i]) \in 0 .. 5 =>
            C13_Added(hist[i].exit.cpu, alu_width(dispatch_opcode(hist[i])),
                      alu_dst(hist[i], dispatch_opcode(hist[i]),
                              dispatch_state(hist[i])),
                      alu_src(hist[i], dispatch_opcode(hist[i])),
                      alu_dst(hist[i], dispatch_opcode(hist[i]),
                              exit_state(hist[i])))

(* ADD AL,1 has executed with AL = 0xFF and has left AL = 0, CF = 1,   *)
(* AF = 1, ZF = 1, OF = 0, SF = 0, PF = 1                              *)
C13_Witness ==
    \E i \in DOMAIN hist :
        /\ dispatch_opcode(hist[i]) = 4
        /\ Lo(hist[i].at.ax) = 255
        /\ imm8_at(dispatch_state(hist[i]), 1) = 1
        /\ Lo(hist[i].exit.cpu.ax) = 0
        /\ BitAnd(hist[i].exit.cpu.flags, 2261) = 85

(* c holds the flags of the w-wide subtraction dst - src *)
C14_Subtracted(c, w, dst, src) ==
    /\ FLAG_TST(c, FLAGS_CF) <=> dst < src
    /\ FLAG_TST(c, FLAGS_AF) <=> dst % 16 < src % 16
    /\ FLAG_TST(c, FLAGS_OV) <=>
           /\ (src >= w \div 2) # (dst >= w \div 2)
           /\ (((dst - src) % w) >= w \div 2) # (dst >= w \div 2)
    /\ flags_of_result(c, w, (dst - src) % w)

(* the call recorded in h changed nothing but FLAGS and IP *)
only_flags_and_ip(h) ==
    /\ [h.exit.cpu EXCEPT !.flags = 0, !.ip = 0]
       = [h.at EXCEPT !.flags = 0, !.ip = 0, !.seg_override = 0]
    /\ h.exit.ram = h.entry.ram

(* C14: SUB 0x28..0x2D and CMP 0x38..0x3D set CF iff dst < src         *)
(* unsigned, AF iff the low nibble of dst is less than that of src, OF *)
(* iff src and dst differ in sign and the result's sign differs from   *)
(* dst's, ZF, SF and PF from the truncated difference; SUB stores      *)
(* (dst - src) mod 2^w, CMP leaves both operands unchanged             *)
C14_SubCmpResultAndFlags ==
    \A i \in DOMAIN hist :
        dispatch_opcode(hist[i]) \in (40 .. 45) \cup (56 .. 61) =>
            /\ C14_Subtracted(hist[i].exit.cpu,
                              alu_width(dispatch_opcode(hist[i])),
                              alu_dst(hist[i], dispatch_opcode(hist[i]),
                                      dispatch_state(hist[i])),
                              alu_src(hist[i], dispatch_opcode(hist[i])))
            /\ dispatch_opcode(hist[i]) \in 40 .. 45 =>
                   alu_dst(hist[i], dispatch_opcode(hist[i]), exit_state(hist[i]))
                   = (alu_dst(hist[i], dispatch_opcode(hist[i]),
                              dispatch_state(hist[i]))
                      - alu_src(hist[i], dispatch_opcode(hist[i])))
                     % alu_width(dispatch_opcode(hist[i]))
            /\ dispatch_opcode(hist[i]) \in 56 .. 61 =>
                   only_flags_and_ip(hist[i])

(* SUB AL,1 has executed with AL = 0 and has left AL = 0xFF, CF = 1,   *)
(* AF = 1, OF = 0, SF = 1, PF = 1, ZF = 0                              *)
C14_Witness ==
    \E i \in DOMAIN hist :
        /\ dispatch_opcode(hist[i]) = 44
        /\ Lo(hist[i].at.ax) = 0
        /\ imm8_at(dispatch_state(hist[i]), 1) = 1
        /\ Lo(hist[i].exit.cpu.ax) = 255
        /\ BitAnd(hist[i].exit.cpu.flags, 2261) = 149

(* the call recorded in h, with opcode op, is AND, OR, XOR or TEST *)
is_logic(h, op) ==
    \/ op \in (8 .. 13) \cup (32 .. 37) \cup (48 .. 53) \cup {132, 133, 168, 169}
    \/ op \in 128 .. 131 /\ modrm_at(dispatch_state(h)).reg \in {1, 4, 6}
    \/ op \in {246, 247} /\ modrm_at(dispatch_state(h)).reg = 0

(* the result of the logical instruction: the destination after the    *)
(* call, and for TEST the AND of its two operands                      *)
logic_result(h, op) ==
    CASE op \in {132, 133} ->
             BitAnd(rm_read(dispatch_state(h), modrm_at(dispatch_state(h)),
                            op = 132),
                    reg_read(dispatch_state(h), modrm_at(dispatch_state(h)).reg,
                             op = 132))
      [] op = 168 -> BitAnd(Lo(h.at.ax), imm8_at(dispatch_state(h), 1))
      [] op = 169 -> BitAnd(h.at.ax, imm16_at(dispatch_state(h), 1))
      [] op = 246 ->
             BitAnd(rm_read(dispatch_state(h), modrm_at(dispatch_state(h)), TRUE),
                    imm8_at(dispatch_state(h),
                            1 + modrm_at(dispatch_state(h)).length))
      [] op = 247 ->
             BitAnd(rm_read(dispatch_state(h), modrm_at(dispatch_state(h)), FALSE),
                    imm16_at(dispatch_state(h),
                             1 + modrm_at(dispatch_state(h)).length))
      [] op \in 128 .. 131 ->
             rm_read(exit_state(h), modrm_at(dispatch_state(h)), op % 2 = 0)
      [] OTHER -> alu_dst(h, op, exit_state(h))

(* c has CF, OF and AF clear and ZF, SF, PF of the w-wide result res *)
C15_LogicFlags(c, w, res) ==
    /\ ~FLAG_TST(c, FLAGS_CF)
    /\ ~FLAG_TST(c, FLAGS_OV)
    /\ ~FLAG_TST(c, FLAGS_AF)
    /\ flags_of_result(c, w, res)

(* C15: after AND, OR, XOR (0x08..0x0D, 0x20..0x25, 0x30..0x35), TEST  *)
(* (0x84, 0x85, 0xA8, 0xA9), the Grp1 OR/AND/XOR forms of 0x80..0x83   *)
(* and Grp3 TEST, CF = 0, OF = 0 and AF = 0 whatever the flags were,   *)
(* and ZF, SF, PF reflect the result                                   *)
C15_LogicClearsCfOfAf ==
    \A i \in DOMAIN hist :
        is_logic(hist[i], dispatch_opcode(hist[i])) =>
            C15_LogicFlags(hist[i].exit.cpu,
                           alu_width(dispatch_opcode(hist[i])),
                           logic_result(hist[i], dispatch_opcode(hist[i])))

(* a Grp1 OR, AND or XOR has executed with AF set *)
C15_Witness ==
    \E i \in DOMAIN hist :
        /\ dispatch_opcode(hist[i]) \in 128 .. 131
        /\ modrm_at(dispatch_state(hist[i])).reg \in {1, 4, 6}
        /\ FLAG_TST(hist[i].at, FLAGS_AF)

(* the call recorded in h, with opcode op, is INC or DEC *)
is_inc_dec(h, op) ==
    \/ op \in 64 .. 79
    \/ op \in {254, 255} /\ modrm_at(dispatch_state(h)).reg \in {0, 1}

(* it is INC *)
is_inc(h, op) ==
    IF op \in 64 .. 79 THEN op < 72 ELSE modrm_at(dispatch_state(h)).reg = 0

(* the operand of INC or DEC, read in the state st *)
inc_dec_operand(h, op, st) ==
    IF op \in 64 .. 79 THEN get_reg16(st.cpu, op % 8)
    ELSE rm_read(st, modrm_at(dispatch_state(h)), op = 254)

(* c and res are what INC (delta 1) or DEC (delta -1) leave for the    *)
(* w-wide operand v when the flags before were f                       *)
C16_Stepped(c, f, w, v, res, delta) ==
    /\ BitAnd(c.flags, FLAGS_CF) = BitAnd(f, FLAGS_CF)
    /\ res = (v + delta) % w
    /\ FLAG_TST(c, FLAGS_OV) <=>
           (IF delta = 1 THEN v = (w \div 2) - 1 ELSE v = w \div 2)
    /\ flags_of_result(c, w, res)

(* C16: INC and DEC, in the register forms 0x40..0x4F and the Grp4/5   *)
(* r/m forms, never change CF, store (operand +/- 1) mod 2^w and set   *)
(* OF exactly on the signed wrap: INC of 0x7FFF or 0x7F, DEC of 0x8000 *)
(* or 0x80                                                             *)
C16_IncDecKeepCarry ==
    \A i \in DOMAIN hist :
        is_inc_dec(hist[i], dispatch_opcode(hist[i])) =>
            C16_Stepped(hist[i].exit.cpu, hist[i].at.flags,
                        IF dispatch_opcode(hist[i]) = 254 THEN 256 ELSE 65536,
                        inc_dec_operand(hist[i], dispatch_opcode(hist[i]),
                                        dispatch_state(hist[i])),
                        inc_dec_operand(hist[i], dispatch_opcode(hist[i]),
                                        exit_state(hist[i])),
                        IF is_inc(hist[i], dispatch_opcode(hist[i]))
                        THEN 1 ELSE 0 - 1)

(* INC AX has executed at AX = 0x7FFF with CF set and has left         *)
(* AX = 0x8000, OF = 1, SF = 1, ZF = 0, CF = 1                         *)
C16_Witness ==
    \E i \in DOMAIN hist :
        /\ dispatch_opcode(hist[i]) = 64
        /\ hist[i].at.ax = 32767
        /\ FLAG_TST(hist[i].at, FLAGS_CF)
        /\ hist[i].exit.cpu.ax = 32768
        /\ BitAnd(hist[i].exit.cpu.flags, 2241) = 2177

(* the call recorded in h is NEG r/m *)
is_neg(h) ==
    /\ dispatch_opcode(h) \in {246, 247}
    /\ modrm_at(dispatch_state(h)).reg = 3

(* the r/m operand of the Grp3 instruction recorded in h, in state st *)
grp3_rm(h, st) ==
    rm_read(st, modrm_at(dispatch_state(h)), dispatch_opcode(h) = 246)

(* C17: NEG executed twice on the same byte or word operand restores   *)
(* its value, and after a NEG CF is 1 iff the operand it negated was   *)
(* non-zero                                                            *)
C17_NegTwiceRestores ==
    \A i \in DOMAIN hist :
        is_neg(hist[i]) =>
            /\ FLAG_TST(hist[i].exit.cpu, FLAGS_CF)
               <=> grp3_rm(hist[i], dispatch_state(hist[i])) # 0
            /\ (/\ i + 1 \in DOMAIN hist
                /\ is_neg(hist[i + 1])
                /\ dispatch_opcode(hist[i + 1]) = dispatch_opcode(hist[i])
                /\ modrm_at(dispatch_state(hist[i + 1]))
                   = modrm_at(dispatch_state(hist[i]))) =>
                   grp3_rm(hist[i], exit_state(hist[i + 1]))
                   = grp3_rm(hist[i], dispatch_state(hist[i]))

(* NEG has executed twice on an operand that is neither 0 nor its own  *)
(* negative                                                            *)
C17_Witness ==
    \E i \in DOMAIN hist :
        /\ i + 1 \in DOMAIN hist
        /\ is_neg(hist[i])
        /\ is_neg(hist[i + 1])
        /\ grp3_rm(hist[i], dispatch_state(hist[i])) # 0
        /\ grp3_rm(hist[i], exit_state(hist[i]))
           # grp3_rm(hist[i], dispatch_state(hist[i]))

(* flag bit number n of the FLAGS value f *)
flag_bit(f, n) == (f \div (2 ^ n)) % 2 = 1

(* the x86 condition table: codes 2k and 2k + 1 test the same          *)
(* predicate, the odd code negated                                     *)
x86_condition_pair(f, k) ==
    CASE k = 0 -> flag_bit(f, 11)
      [] k = 1 -> flag_bit(f, 0)
      [] k = 2 -> flag_bit(f, 6)
      [] k = 3 -> flag_bit(f, 0) \/ flag_bit(f, 6)
      [] k = 4 -> flag_bit(f, 7)
      [] k = 5 -> flag_bit(f, 2)
      [] k = 6 -> flag_bit(f, 7) # flag_bit(f, 11)
      [] k = 7 -> flag_bit(f, 6) \/ (flag_bit(f, 7) # flag_bit(f, 11))

x86_condition(f, n) == x86_condition_pair(f, n \div 2) # (n % 2 = 1)

(* the call recorded in h is a Jcc with no prefix *)
is_jcc(h) == h.npfx = 0 /\ dispatch_opcode(h) \in 112 .. 127

(* the rel8 byte of the Jcc recorded in h *)
jcc_rel8(h) == imm8_at(dispatch_state(h), 1)

(* IP after the Jcc recorded in h, by the x86 rule *)
jcc_next_ip(h) ==
    IF x86_condition(h.entry.cpu.flags, dispatch_opcode(h) % 16)
    THEN (h.entry.cpu.ip + 2 + jcc_rel8(h)
          + (IF jcc_rel8(h) >= 128 THEN 65280 ELSE 0)) % 65536
    ELSE (h.entry.cpu.ip + 2) % 65536

(* C18: a Jcc 0x70..0x7F branches exactly when the x86 condition of    *)
(* its low nibble holds: IP becomes IP + 2 + sign-extended rel8 mod    *)
(* 2^16 when taken and IP + 2 otherwise, and FLAGS and every other     *)
(* register are unchanged                                              *)
C18_JccBranches ==
    \A i \in DOMAIN hist :
        is_jcc(hist[i]) =>
            hist[i].exit.cpu
            = [hist[i].entry.cpu EXCEPT !.ip = jcc_next_ip(hist[i])]

(* a Jcc with rel8 = 0xFE whose condition holds has executed and left  *)
(* IP at its own address, and has executed again from there            *)
C18_Witness ==
    /\ Len(hist) >= 2
    /\ is_jcc(hist[1])
    /\ jcc_rel8(hist[1]) = 254
    /\ x86_condition(hist[1].entry.cpu.flags, dispatch_opcode(hist[1]) % 16)
    /\ hist[1].exit.cpu.ip = hist[1].entry.cpu.ip
    /\ is_jcc(hist[2])
    /\ hist[2].exit.cpu = hist[1].entry.cpu

(* the call recorded in h is LEA with a memory operand *)
is_lea(h) ==
    /\ dispatch_opcode(h) = 141
    /\ Peek(h.entry.ram, cpu_get_pc(h.at) + 1) < 192

(* the 16-bit effective offset of the ModR/M operand at addr, from the *)
(* ModR/M table: base plus displacement, before any segment is applied *)
effective_offset(c, mem, addr) ==
    (C12_Base(c, Peek(mem, addr) \div 64, Peek(mem, addr) % 8)
     + C12_Disp(Peek(mem, addr) \div 64, Peek(mem, addr) % 8,
                Peek(mem, addr + 1),
                Peek(mem, addr + 1) + 256 * Peek(mem, addr + 2))
     + 65536) % 65536

lea_offset(h) == effective_offset(h.at, h.entry.ram, cpu_get_pc(h.at) + 1)

lea_result(h) ==
    get_reg16(h.exit.cpu, (Peek(h.entry.ram, cpu_get_pc(h.at) + 1) \div 8) % 8)

(* C19: LEA r16, m loads the 16-bit effective offset of the memory     *)
(* operand into r16, whatever DS, SS and a segment override are, and   *)
(* changes no memory and no flags                                      *)
C19_LeaLoadsOffset ==
    \A i \in DOMAIN hist :
        is_lea(hist[i]) =>
            /\ lea_result(hist[i]) = lea_offset(hist[i])
            /\ hist[i].exit.ram = hist[i].entry.ram
            /\ hist[i].exit.cpu.flags = hist[i].entry.cpu.flags

(* LEA has executed on a direct address while DS is not a multiple of  *)
(* 0x1000                                                              *)
C19_Witness ==
    \E i \in DOMAIN hist :
        /\ is_lea(hist[i])
        /\ hist[i].npfx = 0
        /\ Peek(hist[i].entry.ram, cpu_get_pc(hist[i].at) + 1) % 8 = 6
        /\ Peek(hist[i].entry.ram, cpu_get_pc(hist[i].at) + 1) \div 64 = 0
        /\ hist[i].at.ds % 4096 # 0

(* MOVS, CMPS, STOS, LODS and SCAS, byte (even opcode) and word *)
string_opcodes == (164 .. 167) \cup (170 .. 175)

is_string(h) == dispatch_opcode(h) \in string_opcodes

(* 1 for the byte forms (even opcode), 2 for the word forms *)
string_operand_size(h) == IF dispatch_opcode(h) % 2 = 0 THEN 1 ELSE 2

(* the index register after a string instruction that uses it: the     *)
(* operand size is added with DF = 0 and subtracted with DF = 1        *)
string_index_after(h, index) ==
    IF flag_bit(h.entry.cpu.flags, 10)
    THEN (index + 65536 - string_operand_size(h)) % 65536
    ELSE (index + string_operand_size(h)) % 65536

(* SI is the source index of MOVS, CMPS and LODS *)
string_uses_si(h) == dispatch_opcode(h) \in {164, 165, 166, 167, 172, 173}

(* DI is the destination index of MOVS, CMPS, STOS and SCAS *)
string_uses_di(h) ==
    dispatch_opcode(h) \in {164, 165, 166, 167, 170, 171, 174, 175}

(* C20: a string instruction moves each index register it uses by the  *)
(* operand size, up with DF = 0 and down with DF = 1 (mod 2^16), and   *)
(* leaves the other index register alone; MOVS, LODS and STOS leave    *)
(* FLAGS unchanged                                                     *)
C20_StringIndexStep ==
    \A i \in DOMAIN hist :
        is_string(hist[i]) =>
            /\ hist[i].exit.cpu.si
               = (IF string_uses_si(hist[i])
                  THEN string_index_after(hist[i], hist[i].entry.cpu.si)
                  ELSE hist[i].entry.cpu.si)
            /\ hist[i].exit.cpu.di
               = (IF string_uses_di(hist[i])
                  THEN string_index_after(hist[i], hist[i].entry.cpu.di)
                  ELSE hist[i].entry.cpu.di)
            /\ dispatch_opcode(hist[i]) \in {164, 165, 170, 171, 172, 173} =>
                   hist[i].exit.cpu.flags = hist[i].entry.cpu.flags

(* MOVSW has executed with DF = 1 from SI = 0 and DI = 1, taking both  *)
(* index registers below zero                                          *)
C20_Witness ==
    \E i \in DOMAIN hist :
        /\ dispatch_opcode(hist[i]) = 165
        /\ flag_bit(hist[i].entry.cpu.flags, 10)
        /\ hist[i].entry.cpu.si = 0
        /\ hist[i].entry.cpu.di = 1
        /\ hist[i].exit.cpu.si = 65534
        /\ hist[i].exit.cpu.di = 65535

(* the call recorded in h is MOVSB *)
is_movsb(h) == dispatch_opcode(h) = 164

(* the physical address of seg:off, reduced to 20 bits *)
phys(seg, off) == (seg * 16 + off) % 1048576

(* memory after a copy of the byte at src to dst *)
byte_copied(mem, src, dst) == Poke(mem, dst, Peek(mem, src))

(* C21: MOVSB copies the byte at physical address (DS*16 + SI) mod     *)
(* 2^20 to physical address (ES*16 + DI) mod 2^20 for all values of    *)
(* DS, SI, ES and DI, and changes no other memory cell                 *)
C21_MovsbCopies ==
    \A i \in DOMAIN hist :
        is_movsb(hist[i]) =>
            hist[i].exit.ram
            = byte_copied(hist[i].entry.ram,
                          phys(hist[i].at.ds, hist[i].at.si),
                          phys(hist[i].at.es, hist[i].at.di))

(* MOVSB has executed with a source above the 1 MiB line: DS = 0xFFFF  *)
(* and SI = 0x0010, which is physical address 0 on the 20-bit bus      *)
C21_Witness ==
    \E i \in DOMAIN hist :
        /\ is_movsb(hist[i])
        /\ hist[i].at.ds = 65535
        /\ hist[i].at.si = 16
        /\ hist[i].at.es = 16384
        /\ Peek(hist[i].entry.ram, 0) = 66

(* the low byte of the FLAGS value f as LAHF presents it: bits 7, 6,   *)
(* 4, 2 and 0 of f, bit 1 set, bits 3 and 5 clear                      *)
lahf_image(f) ==
    128 * ((f \div 128) % 2) + 64 * ((f \div 64) % 2) + 16 * ((f \div 16) % 2)
    + 4 * ((f \div 4) % 2) + 2 + (f % 2)

(* C22: LAHF sets AH to the low byte of FLAGS with bit 1 forced to 1   *)
(* and bits 3 and 5 forced to 0, for every prior FLAGS value; AL,      *)
(* FLAGS and every other register are unchanged                        *)
C22_LahfLoadsFlags ==
    \A i \in DOMAIN hist :
        dispatch_opcode(hist[i]) = 159 =>
            [hist[i].exit.cpu EXCEPT !.ip = 0]
            = [hist[i].at EXCEPT
                 !.ax = 256 * lahf_image(hist[i].at.flags) + (@ % 256),
                 !.ip = 0]

(* LAHF has executed with FLAGS = 0, the value init_8086 leaves *)
C22_Witness ==
    \E i \in DOMAIN hist :
        /\ dispatch_opcode(hist[i]) = 159
        /\ hist[i].at.flags = 0
        /\ hist[i].at.ax = 4660

(* bits 1, 3, 5 and 12..15 of the FLAGS value f *)
reserved_bits(f) ==
    <<(f \div 2) % 2, (f \div 8) % 2, (f \div 32) % 2, f \div 4096>>

(* SAHF, POPF and IRET rewrite FLAGS from AH or from the stack *)
rewrites_flags(h) == dispatch_opcode(h) \in {157, 158, 207}

(* C23: for every instruction other than SAHF, POPF and IRET the       *)
(* reserved FLAGS bits 1, 3, 5 and 12..15 are the same after do_op as  *)
(* before it                                                           *)
C23_ReservedFlagsKept ==
    \A i \in DOMAIN hist :
        ~rewrites_flags(hist[i]) =>
            reserved_bits(hist[i].exit.cpu.flags)
            = reserved_bits(hist[i].entry.cpu.flags)

(* an instruction that writes status flags has executed on a FLAGS     *)
(* value whose reserved bits 3 and 5 were set, and changed FLAGS       *)
C23_Witness ==
    \E i \in DOMAIN hist :
        /\ ~rewrites_flags(hist[i])
        /\ reserved_bits(hist[i].entry.cpu.flags) = <<0, 1, 1, 0>>
        /\ hist[i].exit.cpu.flags # hist[i].entry.cpu.flags

(* the call recorded in h is a Grp2 shift or rotate *)
is_grp2(h) == dispatch_opcode(h) \in 208 .. 211

(* the operation of the Grp2 instruction recorded in h: ROL ROR RCL    *)
(* RCR SHL SHR SAL SAR are 0 .. 7                                      *)
grp2_operation(h) == (Peek(h.entry.ram, cpu_get_pc(h.at) + 1) \div 8) % 8

grp2_is_byte(h) == dispatch_opcode(h) % 2 = 0

(* the effective count: 1 for 0xD0 and 0xD1, the low five bits of CL   *)
(* for 0xD2 and 0xD3                                                   *)
grp2_count(h) == IF dispatch_opcode(h) < 210 THEN 1 ELSE (h.at.cx % 256) % 32

(* the r/m operand of the Grp2 instruction recorded in h, in state st *)
grp2_operand(h, st) == rm_read(st, modrm_at(dispatch_state(h)), grp2_is_byte(h))

(* C24: a Grp2 shift or rotate whose effective count is 0 changes      *)
(* neither the operand nor any flag, nor anything else but IP          *)
C24_ZeroCountNoChange ==
    \A i \in DOMAIN hist :
        (is_grp2(hist[i]) /\ grp2_count(hist[i]) = 0) =>
            /\ [hist[i].exit.cpu EXCEPT !.ip = 0]
               = [hist[i].entry.cpu EXCEPT !.ip = 0]
            /\ hist[i].exit.ram = hist[i].entry.ram
            /\ hist[i].exit.cpu.ip # hist[i].entry.cpu.ip

(* a shift by CL = 32 has executed on a non-zero operand with every    *)
(* status flag set                                                     *)
C24_Witness ==
    \E i \in DOMAIN hist :
        /\ is_grp2(hist[i])
        /\ grp2_operation(hist[i]) \in {4, 5, 7}
        /\ hist[i].at.cx = 32
        /\ hist[i].at.flags = 2263
        /\ grp2_operand(hist[i], dispatch_state(hist[i])) = 128

(* bit number n of x, as 0 or 1 *)
bit_of(x, n) == (x \div (2 ^ n)) % 2

(* the number of the most significant bit of the Grp2 operand of h *)
grp2_msb(h) == IF grp2_is_byte(h) THEN 7 ELSE 15

grp2_before(h) == grp2_operand(h, dispatch_state(h))

grp2_after(h) == grp2_operand(h, exit_state(h))

(* MSB(result) XOR CF after the instruction recorded in h *)
msb_xor_carry(h) ==
    (bit_of(grp2_after(h), grp2_msb(h)) + bit_of(h.exit.cpu.flags, 0)) % 2

(* MSB(result) XOR the bit below it *)
msb_xor_next(h) ==
    (bit_of(grp2_after(h), grp2_msb(h))
     + bit_of(grp2_after(h), grp2_msb(h) - 1)) % 2

(* C25 as stated: with an effective count of 1, OF is MSB(result) XOR  *)
(* CF for ROL, ROR, RCL, RCR and SHL/SAL, the MSB of the pre-shift     *)
(* operand for SHR, and 0 for SAR                                      *)
C25_OverflowMsbXorCarry ==
    \A i \in DOMAIN hist :
        (is_grp2(hist[i]) /\ grp2_count(hist[i]) = 1) =>
            bit_of(hist[i].exit.cpu.flags, 11)
            = (CASE grp2_operation(hist[i]) \in {0, 1, 2, 3, 4, 6} ->
                      msb_xor_carry(hist[i])
                 [] grp2_operation(hist[i]) = 5 ->
                      bit_of(grp2_before(hist[i]), grp2_msb(hist[i]))
                 [] grp2_operation(hist[i]) = 7 -> 0)

(* C25 amended: with an effective count of 1, OF is MSB(result) XOR CF *)
(* for ROL, RCL and SHL/SAL, MSB(result) XOR the next lower bit of the *)
(* result for ROR and RCR, the MSB of the pre-shift operand for SHR,   *)
(* and 0 for SAR                                                       *)
C25_SingleCountOverflow ==
    \A i \in DOMAIN hist :
        (is_grp2(hist[i]) /\ grp2_count(hist[i]) = 1) =>
            bit_of(hist[i].exit.cpu.flags, 11)
            = (CASE grp2_operation(hist[i]) \in {0, 2, 4, 6} ->
                      msb_xor_carry(hist[i])
                 [] grp2_operation(hist[i]) \in {1, 3} ->
                      msb_xor_next(hist[i])
                 [] grp2_operation(hist[i]) = 5 ->
                      bit_of(grp2_before(hist[i]), grp2_msb(hist[i]))
                 [] grp2_operation(hist[i]) = 7 -> 0)

(* ROR by 1 has turned the byte 0x01 into 0x80 with CF = 1: the sign   *)
(* bit changed and OF is 1, while MSB(result) XOR CF is 0              *)
C25_Witness ==
    \E i \in DOMAIN hist :
        /\ dispatch_opcode(hist[i]) = 208
        /\ grp2_operation(hist[i]) = 1
        /\ grp2_before(hist[i]) = 1
        /\ grp2_after(hist[i]) = 128
        /\ bit_of(hist[i].exit.cpu.flags, 0) = 1
        /\ bit_of(hist[i].exit.cpu.flags, 11) = 1

(* C26: every Grp2 operation, the four rotates as well as SHL, SHR and *)
(* SAR, executed with an effective count greater than 1 leaves OF = 0  *)
(* whatever OF was before                                              *)
C26_MultiCountClearsOverflow ==
    \A i \in DOMAIN hist :
        (is_grp2(hist[i]) /\ grp2_count(hist[i]) > 1) =>
            bit_of(hist[i].exit.cpu.flags, 11) = 0

(* ROL by CL = 2 has executed with OF set on entry *)
C26_Witness ==
    \E i \in DOMAIN hist :
        /\ dispatch_opcode(hist[i]) = 210
        /\ grp2_operation(hist[i]) = 0
        /\ hist[i].at.cx = 2
        /\ bit_of(hist[i].entry.cpu.flags, 11) = 1

(* the call recorded in h is IMUL r/m *)
is_imul(h) ==
    /\ dispatch_opcode(h) \in {246, 247}
    /\ modrm_at(dispatch_state(h)).reg = 5

(* the value of the w-bit pattern x as a two's complement number *)
signed_value(x, w) == IF x >= 2 ^ (w - 1) THEN x - 2 ^ w ELSE x

(* the signed product IMUL is to form from the state before the call *)
imul_product(h) ==
    IF dispatch_opcode(h) = 246
    THEN signed_value(h.at.ax % 256, 8)
         * signed_value(grp3_rm(h, dispatch_state(h)), 8)
    ELSE signed_value(h.at.ax, 16)
         * signed_value(grp3_rm(h, dispatch_state(h)), 16)

(* the destination after the call, as a signed number: AX for the byte *)
(* form, DX:AX for the word form                                       *)
imul_destination(h) ==
    IF dispatch_opcode(h) = 246 THEN signed_value(h.exit.cpu.ax, 16)
    ELSE signed_value(h.exit.cpu.dx, 16) * 65536 + h.exit.cpu.ax

(* the upper half of the destination is the sign extension of the      *)
(* lower half                                                          *)
imul_fits(h) ==
    IF dispatch_opcode(h) = 246
    THEN h.exit.cpu.ax \div 256
         = (IF h.exit.cpu.ax % 256 >= 128 THEN 255 ELSE 0)
    ELSE h.exit.cpu.dx = (IF h.exit.cpu.ax >= 32768 THEN 65535 ELSE 0)

(* C27: after IMUL the destination holds the full signed product, and  *)
(* CF = OF = 0 exactly when the upper half is the sign extension of    *)
(* the lower half, CF = OF = 1 otherwise                               *)
C27_ImulProductAndFlags ==
    \A i \in DOMAIN hist :
        is_imul(hist[i]) =>
            /\ imul_destination(hist[i]) = imul_product(hist[i])
            /\ bit_of(hist[i].exit.cpu.flags, 0)
               = (IF imul_fits(hist[i]) THEN 0 ELSE 1)
            /\ bit_of(hist[i].exit.cpu.flags, 11)
               = (IF imul_fits(hist[i]) THEN 0 ELSE 1)

(* the byte IMUL of -128 by -1 has left the product +128 in AX *)
C27_Witness ==
    \E i \in DOMAIN hist :
        /\ is_imul(hist[i])
        /\ dispatch_opcode(hist[i]) = 246
        /\ hist[i].at.ax % 256 = 128
        /\ grp3_rm(hist[i], dispatch_state(hist[i])) = 255
        /\ hist[i].exit.cpu.ax = 128

(* the call recorded in h is MOV r8, imm8 *)
is_mov_r8_imm8(h) == dispatch_opcode(h) \in 176 .. 183

(* the 16-bit register that holds the 8-bit register number r: AL CL   *)
(* DL BL AH CH DH BH are 0 .. 7                                        *)
r8_holder(r) ==
    CASE r % 4 = 0 -> "ax" [] r % 4 = 1 -> "cx"
      [] r % 4 = 2 -> "dx" [] r % 4 = 3 -> "bx"

(* the 16-bit value old with the half that r names replaced by byte *)
half_replaced(old, r, byte) ==
    IF r < 4 THEN (old \div 256) * 256 + byte ELSE byte * 256 + (old % 256)

(* C28: MOV r8, imm8 changes only the addressed 8-bit register half    *)
(* and IP (+2); the other half of the same register, every other       *)
(* register, FLAGS and all memory are unchanged                        *)
C28_MovImm8OnlyHalf ==
    \A i \in DOMAIN hist :
        is_mov_r8_imm8(hist[i]) =>
            /\ hist[i].exit.cpu
               = [hist[i].at EXCEPT
                    ![r8_holder(dispatch_opcode(hist[i]) - 176)] =
                        half_replaced(@, dispatch_opcode(hist[i]) - 176,
                                      Peek(hist[i].entry.ram,
                                           cpu_get_pc(hist[i].at) + 1)),
                    !.ip = (@ + 2) % 65536]
            /\ hist[i].exit.ram = hist[i].entry.ram

(* MOV AL, 0x8A has executed at IP = 0x5F6C with AX = 0xA9B1 and left  *)
(* AX = 0xA98A and IP = 0x5F6E                                         *)
C28_Witness ==
    \E i \in DOMAIN hist :
        /\ dispatch_opcode(hist[i]) = 176
        /\ hist[i].at.ax = 43441
        /\ hist[i].at.ip = 24428
        /\ hist[i].exit.cpu.ax = 43402
        /\ hist[i].exit.cpu.ip = 24430

(* the call recorded in h is a string instruction behind one REP or    *)
(* REPNE prefix                                                        *)
is_rep_string(h) ==
    /\ h.npfx = 1
    /\ Peek(h.entry.ram, cpu_get_pc(h.entry.cpu)) \in {242, 243}
    /\ is_string(h)

(* the element (byte or word) of the instruction recorded in h at      *)
(* physical address addr of mem                                        *)
string_element(h, mem, addr) ==
    IF string_operand_size(h) = 1 THEN Peek(mem, addr)
    ELSE Peek(mem, addr) + 256 * Peek(mem, addr + 1)

(* mem with the element v stored at addr *)
element_stored(h, mem, addr, v) ==
    IF string_operand_size(h) = 1 THEN Poke(mem, addr, v)
    ELSE Poke(Poke(mem, addr, v % 256), addr + 1, v \div 256)

string_source(h) == phys(h.entry.cpu.ds, h.entry.cpu.si)

string_destination(h) == phys(h.entry.cpu.es, h.entry.cpu.di)

(* the accumulator of the instruction recorded in h: AL or AX *)
string_accumulator(h, c) ==
    IF string_operand_size(h) = 1 THEN c.ax % 256 ELSE c.ax

(* memory after one iteration: MOVS and STOS store one element at      *)
(* ES:DI, the others store nothing                                     *)
one_element_moved(h) ==
    IF dispatch_opcode(h) \in {164, 165}
    THEN element_stored(h, h.entry.ram, string_destination(h),
                        string_element(h, h.entry.ram, string_source(h)))
    ELSE IF dispatch_opcode(h) \in {170, 171}
    THEN element_stored(h, h.entry.ram, string_destination(h),
                        string_accumulator(h, h.entry.cpu))
    ELSE h.entry.ram

(* C29: behind a REP or REPNE prefix one do_op call performs exactly   *)
(* one iteration of the string operation: one element is transferred   *)
(* or compared, the index registers move by one element, and IP is     *)
(* left at the byte after the string opcode                            *)
C29_RepOneIteration ==
    \A i \in DOMAIN hist :
        is_rep_string(hist[i]) =>
            /\ hist[i].exit.cpu.ip = (hist[i].entry.cpu.ip + 2) % 65536
            /\ hist[i].exit.cpu.si
               = (IF string_uses_si(hist[i])
                  THEN string_index_after(hist[i], hist[i].entry.cpu.si)
                  ELSE hist[i].entry.cpu.si)
            /\ hist[i].exit.cpu.di
               = (IF string_uses_di(hist[i])
                  THEN string_index_after(hist[i], hist[i].entry.cpu.di)
                  ELSE hist[i].entry.cpu.di)
            /\ hist[i].exit.ram = one_element_moved(hist[i])
            /\ dispatch_opcode(hist[i]) \in {172, 173} =>
                   string_accumulator(hist[i], hist[i].exit.cpu)
                   = string_element(hist[i], hist[i].entry.ram,
                                    string_source(hist[i]))

(* REP MOVSW has executed with CX = 3 and copied the word at DS:0010   *)
(* to ES:0000, and only that word                                      *)
C29_Witness ==
    \E i \in DOMAIN hist :
        /\ is_rep_string(hist[i])
        /\ dispatch_opcode(hist[i]) = 165
        /\ hist[i].entry.cpu.cx = 3
        /\ hist[i].entry.cpu.si = 16
        /\ hist[i].entry.cpu.di = 0
        /\ ~flag_bit(hist[i].entry.cpu.flags, 10)
        /\ Peek(hist[i].exit.ram, phys(hist[i].entry.cpu.es, 0)) = 173
        /\ Peek(hist[i].exit.ram, phys(hist[i].entry.cpu.es, 2)) = 0
        /\ hist[i].exit.cpu.si = 18

(* C30: every call of do_op terminates: a call that is in its prefix   *)
(* loop leaves the loop and returns, also when every byte of the       *)
(* 64 KiB window addressed through CS is a prefix byte                 *)
C30_DoOpTerminates == (phase = "prefix") ~> (phase # "prefix")

(* the prefix loop has gone through the whole 64 KiB window: it is     *)
(* back at the IP the call was entered with                            *)
C30_Witness ==
    /\ phase = "prefix"
    /\ call.npfx = MaxPrefixCount
    /\ cpu.ip = call.entry.cpu.ip
    /\ is_prefix(cpu_read_byte(ram, cpu_get_pc(cpu)))

(* the call recorded in h is Grp1 with reg = 0: ADD r/m, imm *)
is_grp1_add(h) ==
    /\ dispatch_opcode(h) \in 128 .. 131
    /\ modrm_at(dispatch_state(h)).reg = 0

grp1_is_byte(h) == dispatch_opcode(h) \in {128, 130}

(* the immediate operand: imm8, imm16, or imm8 sign-extended to a word *)
grp1_immediate(h) ==
    IF grp1_is_byte(h)
    THEN imm8_at(dispatch_state(h), 1 + modrm_at(dispatch_state(h)).length)
    ELSE IF dispatch_opcode(h) = 131
    THEN U16(S8(imm8_at(dispatch_state(h),
                        1 + modrm_at(dispatch_state(h)).length)))
    ELSE imm16_at(dispatch_state(h), 1 + modrm_at(dispatch_state(h)).length)

(* the r/m operand of the call, read in the state st *)
grp1_rm(h, st) == rm_read(st, modrm_at(dispatch_state(h)), grp1_is_byte(h))

(* C31: Grp1 with reg = 0 (0x80..0x83, ADD r/m, imm) leaves the        *)
(* destination and CF, AF, OF, ZF, SF, PF that the plain ADD leaves on *)
(* the same operands; CF is set whenever the unsigned sum exceeds the  *)
(* operand-width maximum                                               *)
C31_Grp1AddAsAdd ==
    \A i \in DOMAIN hist :
        is_grp1_add(hist[i]) =>
            C13_Added(hist[i].exit.cpu,
                      IF grp1_is_byte(hist[i]) THEN 256 ELSE 65536,
                      grp1_rm(hist[i], dispatch_state(hist[i])),
                      grp1_immediate(hist[i]),
                      grp1_rm(hist[i], exit_state(hist[i])))

(* ADD AL,1 in its Grp1 form has executed with AL = 0xFF and has left  *)
(* AL = 0                                                              *)
C31_Witness ==
    \E i \in DOMAIN hist :
        /\ is_grp1_add(hist[i])
        /\ dispatch_opcode(hist[i]) = 128
        /\ Lo(hist[i].at.ax) = 255
        /\ grp1_immediate(hist[i]) = 1
        /\ Lo(hist[i].exit.cpu.ax) = 0

(* CF before the call recorded in h, as 0 or 1 *)
carry_before(h) == bit_of(h.at.flags, 0)

(* CF, AF and OF of c are those of the w-wide sum dst + src + cin,     *)
(* with the signs of the original dst and src                          *)
C32_AddedWithCarry(c, w, dst, src, cin) ==
    /\ FLAG_TST(c, FLAGS_CF) <=> dst + src + cin > w - 1
    /\ FLAG_TST(c, FLAGS_AF) <=> (dst % 16) + (src % 16) + cin > 15
    /\ FLAG_TST(c, FLAGS_OV) <=>
           /\ (src >= w \div 2) = (dst >= w \div 2)
           /\ ((dst + src + cin) % w >= w \div 2) # (dst >= w \div 2)

(* C32: after ADC 0x10..0x15 the flags describe dst + src + CF_in: CF  *)
(* is the carry out of the operand width, AF iff the low nibbles and   *)
(* CF_in sum above 0xF, OF iff src and dst have the same sign and the  *)
(* result the other, the sign of src being that of the original src    *)
C32_AdcFlags ==
    \A i \in DOMAIN hist :
        dispatch_opcode(hist[i]) \in 16 .. 21 =>
            C32_AddedWithCarry(hist[i].exit.cpu,
                               alu_width(dispatch_opcode(hist[i])),
                               alu_dst(hist[i], dispatch_opcode(hist[i]),
                                       dispatch_state(hist[i])),
                               alu_src(hist[i], dispatch_opcode(hist[i])),
                               carry_before(hist[i]))

(* ADC AL,0x7F has executed with AL = 0 and CF = 1 and has left        *)
(* AL = 0x80                                                           *)
C32_Witness ==
    \E i \in DOMAIN hist :
        /\ dispatch_opcode(hist[i]) = 20
        /\ Lo(hist[i].at.ax) = 0
        /\ imm8_at(dispatch_state(hist[i]), 1) = 127
        /\ carry_before(hist[i]) = 1
        /\ Lo(hist[i].exit.cpu.ax) = 128

(* res, CF, AF and OF of c are those of the w-wide difference          *)
(* dst - src - cin, with the signs of the original dst and src         *)
C33_SubtractedWithBorrow(c, w, dst, src, cin, res) ==
    /\ res = (dst - src - cin) % w
    /\ FLAG_TST(c, FLAGS_CF) <=> dst < src + cin
    /\ FLAG_TST(c, FLAGS_AF) <=> dst % 16 < (src % 16) + cin
    /\ FLAG_TST(c, FLAGS_OV) <=>
           /\ (src >= w \div 2) # (dst >= w \div 2)
           /\ ((dst - src - cin) % w >= w \div 2) # (dst >= w \div 2)

(* C33: SBB 0x18..0x1D stores (dst - src - CF_in) mod 2^w; CF iff      *)
(* dst < src + CF_in as unbounded integers, AF iff the low nibble of   *)
(* dst is below that of src plus CF_in, OF iff src and dst differ in   *)
(* sign and dst and the result differ in sign, the sign of src being   *)
(* that of the original src                                            *)
C33_SbbResultAndFlags ==
    \A i \in DOMAIN hist :
        dispatch_opcode(hist[i]) \in 24 .. 29 =>
            C33_SubtractedWithBorrow(
                hist[i].exit.cpu,
                alu_width(dispatch_opcode(hist[i])),
                alu_dst(hist[i], dispatch_opcode(hist[i]),
                        dispatch_state(hist[i])),
                alu_src(hist[i], dispatch_opcode(hist[i])),
                carry_before(hist[i]),
                alu_dst(hist[i], dispatch_opcode(hist[i]),
                        exit_state(hist[i])))

(* SBB AL,0x7F has executed with AL = 0x80 and CF = 1 and has left     *)
(* AL = 0                                                              *)
C33_Witness ==
    \E i \in DOMAIN hist :
        /\ dispatch_opcode(hist[i]) = 28
        /\ Lo(hist[i].at.ax) = 128
        /\ imm8_at(dispatch_state(hist[i]), 1) = 127
        /\ carry_before(hist[i]) = 1
        /\ Lo(hist[i].exit.cpu.ax) = 0

(* the word on top of the stack of the machine c, mem *)
stack_top(c, mem) ==
    Peek(mem, phys(c.ss, c.sp)) + 256 * Peek(mem, phys(c.ss, c.sp) + 1)

(* the call recorded in h is CALL near, and it has pushed the offset   *)
(* ret and has jumped to the offset target                             *)
called_near(h, ret, target) ==
    /\ h.exit.cpu.sp = (h.at.sp - 2) % 65536
    /\ stack_top(h.exit.cpu, h.exit.ram) = ret
    /\ h.exit.cpu.ip = target

(* C34: CALL near (0xE8) pushes IP + 3, the offset of the first byte   *)
(* after the CALL, and jumps to (IP + 3 + rel16) mod 2^16; a RET near  *)
(* (0xC3) executed next leaves IP at the byte after the CALL and SP at *)
(* its value before the CALL                                           *)
C34_CallThenRet ==
    \A i \in DOMAIN hist :
        dispatch_opcode(hist[i]) = 232 =>
            /\ called_near(hist[i], (hist[i].at.ip + 3) % 65536,
                           (hist[i].at.ip + 3
                            + imm16_at(dispatch_state(hist[i]), 1)) % 65536)
            /\ (i + 1 \in DOMAIN hist /\ dispatch_opcode(hist[i + 1]) = 195) =>
                   /\ hist[i + 1].exit.cpu.ip = (hist[i].at.ip + 3) % 65536
                   /\ hist[i + 1].exit.cpu.sp = hist[i].at.sp

(* a CALL near at IP = 0xFFFD with SP = 0 and a backward displacement  *)
(* has been followed by a RET near                                     *)
C34_Witness ==
    \E i \in DOMAIN hist :
        /\ dispatch_opcode(hist[i]) = 232
        /\ hist[i].at.ip = 65533
        /\ hist[i].at.sp = 0
        /\ imm16_at(dispatch_state(hist[i]), 1) = 65520
        /\ i + 1 \in DOMAIN hist
        /\ dispatch_opcode(hist[i + 1]) = 195
        /\ hist[i + 1].exit.cpu.ip = 0

(* the word at physical address a of mem *)
word_at(mem, a) == Peek(mem, a) + 256 * Peek(mem, a + 1)

(* the k-th word from the top of the stack of the machine c, mem *)
stack_word(c, mem, k) == word_at(mem, phys(c.ss, (c.sp + 2 * k) % 65536))

(* f with IF (bit 9) and TF (bit 8) cleared *)
without_if_tf(f) == f - 512 * bit_of(f, 9) - 256 * bit_of(f, 8)

(* the call recorded in h is INT vec: it has pushed FLAGS, CS and the  *)
(* offset of the next instruction, cleared IF and TF and loaded CS:IP  *)
(* from the vector                                                     *)
interrupted(h, vec) ==
    /\ h.exit.cpu.sp = (h.at.sp - 6) % 65536
    /\ stack_word(h.exit.cpu, h.exit.ram, 2) = h.at.flags
    /\ stack_word(h.exit.cpu, h.exit.ram, 1) = h.at.cs
    /\ stack_word(h.exit.cpu, h.exit.ram, 0) = (h.at.ip + 2) % 65536
    /\ h.exit.cpu.flags = without_if_tf(h.at.flags)
    /\ h.exit.cpu.ip = word_at(h.entry.ram, vec * 4)
    /\ h.exit.cpu.cs = word_at(h.entry.ram, vec * 4 + 2)

(* C35: INT imm8 pushes FLAGS, then CS, then the offset of the next    *)
(* instruction, clears IF and TF and loads IP from the word at vec*4   *)
(* and CS from the word at vec*4 + 2; an IRET executed next leaves     *)
(* CS:IP at the instruction after the INT, FLAGS as before the INT and *)
(* SP restored                                                         *)
C35_IntThenIret ==
    \A i \in DOMAIN hist :
        dispatch_opcode(hist[i]) = 205 =>
            /\ interrupted(hist[i], imm8_at(dispatch_state(hist[i]), 1))
            /\ (i + 1 \in DOMAIN hist /\ dispatch_opcode(hist[i + 1]) = 207) =>
                   /\ hist[i + 1].exit.cpu.cs = hist[i].at.cs
                   /\ hist[i + 1].exit.cpu.ip = (hist[i].at.ip + 2) % 65536
                   /\ hist[i + 1].exit.cpu.flags = hist[i].at.flags
                   /\ hist[i + 1].exit.cpu.sp = hist[i].at.sp

(* INT 0x21 with IF and TF set has entered its handler with both       *)
(* cleared, and the IRET there has set them again                      *)
C35_Witness ==
    \E i \in DOMAIN hist :
        /\ dispatch_opcode(hist[i]) = 205
        /\ imm8_at(dispatch_state(hist[i]), 1) = 33
        /\ hist[i].at.flags = 770
        /\ hist[i].exit.cpu.flags = 2
        /\ hist[i].exit.cpu.cs = 20480
        /\ i + 1 \in DOMAIN hist
        /\ dispatch_opcode(hist[i + 1]) = 207
        /\ hist[i + 1].exit.cpu.flags = 770

(* the call recorded in h has branched by its rel8 / has fallen        *)
(* through its two bytes                                               *)
rel8_taken(h) ==
    h.exit.cpu.ip
    = (h.at.ip + 2 + signed_value(imm8_at(dispatch_state(h), 1), 8)) % 65536

rel8_not_taken(h) == h.exit.cpu.ip = (h.at.ip + 2) % 65536

rel8_branch(h, taken) == IF taken THEN rel8_taken(h) ELSE rel8_not_taken(h)

(* one LOOPNE, LOOPE, LOOP or JCXZ as the call recorded in h made it *)
loop_step(h) ==
    CASE dispatch_opcode(h) = 226 ->
           /\ h.exit.cpu.cx = (h.at.cx - 1) % 65536
           /\ h.exit.cpu.flags = h.at.flags
           /\ rel8_branch(h, h.exit.cpu.cx # 0)
      [] dispatch_opcode(h) = 225 ->
           /\ h.exit.cpu.cx = (h.at.cx - 1) % 65536
           /\ h.exit.cpu.flags = h.at.flags
           /\ rel8_branch(h, h.exit.cpu.cx # 0 /\ bit_of(h.at.flags, 6) = 1)
      [] dispatch_opcode(h) = 224 ->
           /\ h.exit.cpu.cx = (h.at.cx - 1) % 65536
           /\ h.exit.cpu.flags = h.at.flags
           /\ rel8_branch(h, h.exit.cpu.cx # 0 /\ bit_of(h.at.flags, 6) = 0)
      [] dispatch_opcode(h) = 227 ->
           /\ h.exit.cpu.cx = h.at.cx
           /\ rel8_branch(h, h.at.cx = 0)
      [] OTHER -> TRUE

(* the first call is a LOOP to its own address *)
loops_on_itself ==
    /\ hist # <<>>
    /\ dispatch_opcode(hist[1]) = 226
    /\ imm8_at(dispatch_state(hist[1]), 1) = 254
    /\ hist[1].at.cx >= 1

(* C36: LOOP decrements CX without changing FLAGS and branches iff the *)
(* new CX is non-zero, so a LOOP with rel8 = -2 stepped from CX = n    *)
(* (1 <= n <= 65535) is left after exactly n steps with CX = 0 and IP  *)
(* at the byte after it; LOOPE and LOOPNE also require ZF = 1 and      *)
(* ZF = 0, and JCXZ branches iff CX = 0 and leaves CX                  *)
C36_LoopCountsDown ==
    /\ \A i \in DOMAIN hist : loop_step(hist[i])
    /\ loops_on_itself =>
           \A k \in DOMAIN hist :
               IF k <= hist[1].at.cx
               THEN /\ hist[k].at.ip = hist[1].at.ip
                    /\ hist[k].exit.cpu.cx = hist[1].at.cx - k
                    /\ hist[k].exit.cpu.ip
                       = (IF k < hist[1].at.cx THEN hist[1].at.ip
                          ELSE (hist[1].at.ip + 2) % 65536)
               ELSE hist[k].at.ip # hist[1].at.ip

(* a LOOP to its own address entered with CX = 3 has been left by its  *)
(* third step, with CX = 0                                             *)
C36_Witness ==
    /\ loops_on_itself
    /\ hist[1].at.cx = 3
    /\ Len(hist) >= 4
    /\ hist[3].exit.cpu.cx = 0
    /\ hist[3].exit.cpu.ip = hist[1].at.ip + 2
    /\ dispatch_opcode(hist[4]) = 144

(* the call recorded in h is CMPSB or CMPSW *)
is_cmps(h) == dispatch_opcode(h) \in {166, 167}

(* the element of the call's width at seg:off before the call *)
cmps_element(h, seg, off) ==
    IF dispatch_opcode(h) = 166 THEN Peek(h.entry.ram, phys(seg, off))
    ELSE word_at(h.entry.ram, phys(seg, off))

(* C37: CMPS sets CF, AF, OF, ZF, SF, PF as SUB does for the element   *)
(* at DS:SI minus the element at ES:DI, and writes neither memory nor  *)
(* the accumulator                                                     *)
C37_CmpsAsSub ==
    \A i \in DOMAIN hist :
        is_cmps(hist[i]) =>
            /\ C14_Subtracted(hist[i].exit.cpu,
                              alu_width(dispatch_opcode(hist[i])),
                              cmps_element(hist[i], hist[i].at.ds,
                                           hist[i].at.si),
                              cmps_element(hist[i], hist[i].at.es,
                                           hist[i].at.di))
            /\ hist[i].exit.ram = hist[i].entry.ram
            /\ hist[i].exit.cpu.ax = hist[i].at.ax

(* CMPSB has compared the byte 1 at DS:SI with the byte 0 at ES:DI *)
C37_Witness ==
    \E i \in DOMAIN hist :
        /\ dispatch_opcode(hist[i]) = 166
        /\ cmps_element(hist[i], hist[i].at.ds, hist[i].at.si) = 1
        /\ cmps_element(hist[i], hist[i].at.es, hist[i].at.di) = 0
        /\ hist[i].exit.cpu.si = hist[i].at.si + 1

(* the k-th byte of the instruction of the call recorded in h, at      *)
(* CS:((IP + k) mod 2^16)                                              *)
fetched(h, k) == Peek(h.entry.ram, phys(h.at.cs, (h.at.ip + k) % 65536))

(* the byte at the k-th physical address after the opcode *)
fetched_linear(h, k) == Peek(h.entry.ram, phys(h.at.cs, h.at.ip) + k)

(* C38: the bytes after the opcode (ModR/M, displacement, immediate)   *)
(* are fetched at CS:((IP + k) mod 2^16): an instruction that starts   *)
(* at IP = 0xFFFF reads its second byte from phys(CS, 0), not from     *)
(* phys(CS, 0xFFFF) + 1                                                *)
C38_OperandFetchWraps ==
    \A i \in DOMAIN hist :
        /\ dispatch_opcode(hist[i]) = 176 =>
               Lo(hist[i].exit.cpu.ax) = fetched(hist[i], 1)
        /\ dispatch_opcode(hist[i]) = 184 =>
               hist[i].exit.cpu.ax
               = fetched(hist[i], 1) + 256 * fetched(hist[i], 2)
        /\ (dispatch_opcode(hist[i]) = 138 /\ fetched(hist[i], 1) >= 192) =>
               get_reg8(hist[i].exit.cpu, (fetched(hist[i], 1) \div 8) % 8)
               = get_reg8(hist[i].at, fetched(hist[i], 1) % 8)

(* MOV AL,imm8 has executed at IP = 0xFFFF with one byte at CS:0000    *)
(* and another at the physical address after the opcode                *)
C38_Witness ==
    \E i \in DOMAIN hist :
        /\ dispatch_opcode(hist[i]) = 176
        /\ hist[i].at.ip = 65535
        /\ fetched(hist[i], 1) # fetched_linear(hist[i], 1)
        /\ hist[i].exit.cpu.ip = 1

(* the call recorded in h has left the CPU halted *)
left_halted(h) == h.exit.cpu.running = 0

(* C39: HLT marks the CPU halted with IP one past the HLT byte; once a *)
(* step has left the CPU halted (HLT, divide error, undefined opcode)  *)
(* main_loop makes no further do_op call; and main_loop never makes    *)
(* more than `instructions` do_op calls                                *)
C39_HaltStopsMainLoop ==
    /\ \A i \in DOMAIN hist :
           dispatch_opcode(hist[i]) = 244 =>
               /\ left_halted(hist[i])
               /\ hist[i].exit.cpu.ip = (hist[i].at.ip + 1) % 65536
    /\ \A i \in DOMAIN hist : left_halted(hist[i]) => i = Len(hist)
    /\ Len(hist) <= call.budget

(* main_loop(cpu, 4) has returned after two do_op calls, the second a  *)
(* HLT                                                                 *)
C39_Witness ==
    /\ phase = "exited"
    /\ call.budget = 4
    /\ Len(hist) = 2
    /\ dispatch_opcode(hist[2]) = 244
    /\ left_halted(hist[2])

(* C40: PUSH SP (0x54) stores at the new top of stack the value SP     *)
(* held before the instruction, not the decremented value, so PUSH SP; *)
(* POP SP leaves SP equal to its original value                        *)
C40_PushSpStoresOldSp ==
    \A i \in DOMAIN hist :
        dispatch_opcode(hist[i]) = 84 =>
            /\ hist[i].exit.cpu.sp = (hist[i].at.sp - 2) % 65536
            /\ stack_top(hist[i].exit.cpu, hist[i].exit.ram) = hist[i].at.sp
            /\ (i + 1 \in DOMAIN hist /\ dispatch_opcode(hist[i + 1]) = 92) =>
                   hist[i + 1].exit.cpu.sp = hist[i].at.sp

(* PUSH SP; POP SP has executed from SP = 0x0100, with the word 0x0100 *)
(* on the stack at SS:00FE in between                                  *)
C40_Witness ==
    /\ Len(hist) >= 2
    /\ dispatch_opcode(hist[1]) = 84
    /\ hist[1].at.sp = 256
    /\ hist[1].exit.cpu.sp = 254
    /\ stack_top(hist[1].exit.cpu, hist[1].exit.ram) = 256
    /\ dispatch_opcode(hist[2]) = 92
    /\ hist[2].exit.cpu.sp = 256

====
